---- MODULE Spec2Model ----
(***************************************************************************)
(* Smart Digital Canteen System: the order lifecycle and token issuance    *)
(* over the browser's localStorage, as implemented in js/utils.js, the     *)
(* cart / orders module, js/menu.js and js/admin.js.                       *)
(*                                                                         *)
(* Every localStorage key is one variable.  Every handler runs to          *)
(* completion (single-threaded), so every handler is one action.  Each     *)
(* `new Date()` of the source is a separate read of the wall clock: the    *)
(* clock may advance between two reads of the same handler.                *)
(***************************************************************************)
EXTENDS Integers, Sequences, FiniteSets, TLC

VARIABLES
    now,            \* the wall clock: the value of the latest `new Date()`
    users,          \* localStorage canteen_users
    currentUser,    \* localStorage canteen_current_user
    menuItems,      \* localStorage canteen_menu_items
    cart,           \* localStorage canteen_cart
    orders,         \* localStorage canteen_orders
    shopLocation,   \* localStorage canteen_shop_location
    staffMembers,   \* localStorage canteen_staff_members
    present,        \* the keys that exist in localStorage
    idSeq,          \* number of ids issued by generateId so far, per collection
    edits,          \* writes to the catalog, the roster, the accounts and the
                    \* shop location since the sample data were seeded
    quotaExceeded,  \* localStorage has no room left: setItem of a value that
                    \* is not shorter than the stored one throws
    listeners,      \* click listeners installed on #ordersContainer
    dispatch,       \* the click on an order button being dispatched to them
    tabs,           \* per browser tab, how far its createOrder() has run
    orderRefreshInterval,   \* the id startOrderRefresh keeps, or NoInterval
    timers          \* the interval timers of the page: the ids that are
                    \* active, how many were issued, whose callback ran last

vars == <<now, users, currentUser, menuItems, cart, orders, shopLocation,
          staffMembers, present, idSeq, edits, quotaExceeded, listeners,
          dispatch, tabs, orderRefreshInterval, timers>>

\* what lies outside localStorage and the clock: the room left in storage
\* and the state of the open pages
page == <<quotaExceeded, listeners, dispatch, tabs, orderRefreshInterval,
          timers>>

\* the refresh timer of the staff dashboard
timing == <<orderRefreshInterval, timers>>

\* `let orderRefreshInterval = null`; setInterval returns ids from 1 on
NoInterval == 0

\* a page without timers
NoTimers == [active |-> {}, issued |-> 0, ran |-> NoInterval]

storage == <<users, currentUser, menuItems, cart, orders, shopLocation,
             staffMembers, present>>

----------------------------------------------------------------------------
(* Bounds of the model                                                      *)

\* instants per calendar day; the clock covers day 0 and the first instant
\* of day 1
TicksPerDay == 1
\* how far from the freshly seeded storage the model goes: ordered units of
\* the cart and of the orders, status-history entries, and EditWeight for
\* each administrative write
MaxLoad == 6
EditWeight == 3
\* largest quantity of one cart line
MaxQuantity == 2
\* most click listeners the model installs on #ordersContainer
MaxListeners == 2
\* most orders the racing tabs build
MaxRacedOrders == 2
\* most items the catalog of the administrator's forms holds
MaxMenuItems == 3
\* most interval timers a page starts
MaxTimers == 3

MaxTime == TicksPerDay
Time == 0 .. MaxTime

----------------------------------------------------------------------------
(* Constants of the program                                                 *)

STORAGE_KEYS == [USERS |-> "canteen_users",
                 CURRENT_USER |-> "canteen_current_user",
                 MENU_ITEMS |-> "canteen_menu_items",
                 CART |-> "canteen_cart",
                 ORDERS |-> "canteen_orders",
                 SHOP_LOCATION |-> "canteen_shop_location",
                 STAFF_MEMBERS |-> "canteen_staff_members"]

AllKeys == {STORAGE_KEYS[k] : k \in DOMAIN STORAGE_KEYS}

ORDER_STATUS == [PENDING |-> "pending", PREPARING |-> "preparing",
                 READY |-> "ready", COMPLETED |-> "completed",
                 CANCELLED |-> "cancelled"]

USER_ROLES == [CUSTOMER |-> "customer", STAFF |-> "staff", ADMIN |-> "admin"]

Statuses == {ORDER_STATUS[k] : k \in DOMAIN ORDER_STATUS}

\* a field that was never assigned (undefined in the source)
Undefined == -1

\* getFromStorage of a missing key of canteen_current_user
NullUser == [id |-> "", name |-> "", email |-> "", role |-> ""]

----------------------------------------------------------------------------
(* Dates                                                                    *)

\* Date.prototype.toDateString: the local calendar day of an instant
toDateString(t) == t \div TicksPerDay

\* the decimal digits of n, most significant first (Number.toString)
RECURSIVE toDigits(_)
toDigits(n) == IF n < 10 THEN <<n>> ELSE Append(toDigits(n \div 10), n % 10)

\* String.prototype.padStart(len, '0') on a digit string
RECURSIVE padStart(_, _)
padStart(s, len) == IF Len(s) >= len THEN s ELSE padStart(<<0>> \o s, len)

\* the numeric value of a digit string
RECURSIVE digitsValue(_)
digitsValue(s) ==
    IF s = <<>> THEN 0
    ELSE 10 * digitsValue(SubSeq(s, 1, Len(s) - 1)) + s[Len(s)]

----------------------------------------------------------------------------
(* Sequence helpers (Array.prototype.reduce / map / findIndex)              *)

\* Array.prototype.reduce((sum, x) => sum + x, 0), left to right
RECURSIVE reduceSum(_)
reduceSum(s) ==
    IF s = <<>> THEN 0
    ELSE reduceSum(SubSeq(s, 1, Len(s) - 1)) + s[Len(s)]

\* Array.prototype.map
mapSeq(s, F(_)) == [i \in 1 .. Len(s) |-> F(s[i])]

\* index of the first element satisfying Test, 0 when there is none
findIndex(s, Test(_)) ==
    IF \E i \in 1 .. Len(s) : Test(s[i])
    THEN CHOOSE i \in 1 .. Len(s) :
            Test(s[i]) /\ \A j \in 1 .. (i - 1) : ~Test(s[j])
    ELSE 0

----------------------------------------------------------------------------
(* localStorage                                                             *)

\* localStorage.setItem throws QuotaExceededError: storage has no room left
\* and the value written is not shorter than the stored one
setItemThrows(stored, data) == quotaExceeded /\ Len(data) >= Len(stored)

\* saveToStorage(key, data): what the key holds afterwards; the exception
\* of setItem is caught and logged, and the stored value stays
saveToStorage(stored, data) == IF setItemThrows(stored, data) THEN stored ELSE data

\* the key that saveToStorage(key, data) leaves in storage, if it wrote
keyWritten(key, stored, data) ==
    IF setItemThrows(stored, data) THEN {} ELSE {key}

\* the browser tabs open on the application
Tabs == {1, 2}

\* a tab in which no createOrder() is running
IdleTab == [pc |-> "idle", order |-> <<>>, read |-> <<>>, local |-> <<>>]

\* generateId(): an opaque identifier never issued before; the n-th
\* identifier issued for a collection is <<collection, n>>
generateId(kind) == <<kind, idSeq[kind] + 1>>

\* the ids a caller can pass: every id issued so far and one never issued
IdInputs(kind) == {<<kind, n>> : n \in 1 .. (idSeq[kind] + 1)}

\* clearAllStorage(): removeItem on every key of STORAGE_KEYS
clearAllStorage ==
    /\ present' = present \ AllKeys
    /\ users' = <<>>
    /\ currentUser' = NullUser
    /\ menuItems' = <<>>
    /\ cart' = <<>>
    /\ orders' = <<>>
    /\ shopLocation' = <<>>
    /\ staffMembers' = <<>>
    /\ UNCHANGED <<page, now, idSeq>>

----------------------------------------------------------------------------
(* Sample data (initializeSampleData), the catalog cut to its first two    *)
(* items and the staff roster to its first member                          *)

\* the sample catalog, its ids being the next two issued after n
sampleMenuItems(n) ==
    << [id |-> <<"item", n + 1>>, name |-> "Chicken Rice", price |-> 350,
        available |-> TRUE],
       [id |-> <<"item", n + 2>>, name |-> "Vegetable Fried Rice", price |-> 280,
        available |-> TRUE] >>

sampleAdmin(n) ==
    [id |-> <<"user", n + 1>>, name |-> "Admin User", email |-> "admin@canteen.com",
     password |-> "admin123", role |-> USER_ROLES.ADMIN]

sampleStaff(n) ==
    << [id |-> <<"user", n + 1>>, name |-> "John Cook", email |-> "john@canteen.com",
        password |-> "staff123", role |-> USER_ROLES.STAFF,
        ordersCompleted |-> 45] >>

sampleShopLocation ==
    << [name |-> "SUSL Main Canteen",
        address |-> "Sabaragamuwa University of Sri Lanka, Belihuloya"] >>

\* a staff roster entry as a canteen_users entry
asUser(s) == [id |-> s.id, name |-> s.name, email |-> s.email,
              password |-> s.password, role |-> s.role]

\* initializeSampleData(): seeds every key that is missing
initializeSampleData ==
    LET seedMenu == STORAGE_KEYS.MENU_ITEMS \notin present
        seedAdmin == \A i \in 1 .. Len(users) : users[i].role # USER_ROLES.ADMIN
        seedStaff == STORAGE_KEYS.STAFF_MEMBERS \notin present
        users1 == IF seedAdmin
                  THEN Append(users, sampleAdmin(idSeq["user"])) ELSE users
        nUser1 == IF seedAdmin THEN idSeq["user"] + 1 ELSE idSeq["user"]
        staff == sampleStaff(nUser1)
        users2 == IF seedStaff
                  THEN users1 \o SelectSeq(mapSeq(staff, asUser),
                            LAMBDA n : \A i \in 1 .. Len(users1) :
                                          users1[i].email # n.email)
                  ELSE users1
        nUser2 == IF seedStaff THEN nUser1 + Len(staff) ELSE nUser1
    IN  /\ menuItems' = IF seedMenu THEN sampleMenuItems(idSeq["item"])
                        ELSE menuItems
        /\ users' = users2
        /\ staffMembers' = IF seedStaff THEN staff ELSE staffMembers
        /\ shopLocation' = IF STORAGE_KEYS.SHOP_LOCATION \notin present
                           THEN sampleShopLocation ELSE shopLocation
        /\ idSeq' = [idSeq EXCEPT
                        !["item"] = IF seedMenu THEN @ + 2 ELSE @,
                        !["user"] = nUser2]
        /\ present' = (present \cup (AllKeys \ {STORAGE_KEYS.CURRENT_USER,
                                                STORAGE_KEYS.USERS}))
                      \cup (IF seedAdmin \/ (seedStaff /\ users2 # users1)
                            THEN {STORAGE_KEYS.USERS} ELSE {})
        /\ UNCHANGED <<quotaExceeded, tabs, now, currentUser, cart, orders, edits>>

Init ==
    /\ now = 0
    /\ users = <<sampleAdmin(0)>> \o mapSeq(sampleStaff(1), asUser)
    /\ currentUser = NullUser
    /\ menuItems = sampleMenuItems(0)
    /\ cart = <<>>
    /\ orders = <<>>
    /\ shopLocation = sampleShopLocation
    /\ staffMembers = sampleStaff(1)
    /\ present = AllKeys \ {STORAGE_KEYS.CURRENT_USER}
    /\ idSeq = [order |-> 0, user |-> 2, item |-> 2]
    /\ edits = 0
    /\ quotaExceeded = FALSE
    /\ listeners = 1
    /\ dispatch = <<>>
    /\ tabs = [t \in Tabs |-> IdleTab]
    /\ orderRefreshInterval = NoInterval
    /\ timers = NoTimers

----------------------------------------------------------------------------
(* Cart                                                                     *)

getCart == cart

getCurrentUser == currentUser

getMenuItem(itemId) ==
    LET i == findIndex(menuItems, LAMBDA m : m.id = itemId)
    IN  IF i = 0 THEN <<>> ELSE <<menuItems[i]>>

lineTotal(item) == item.price * item.quantity

\* getCartSubtotal summing the unit prices and forgetting the quantities
getCartSubtotal_unitPrices ==
    reduceSum(mapSeq(getCart, LAMBDA item : item.price))

getCartSubtotal == reduceSum(mapSeq(getCart, lineTotal))

getCartTotals ==
    LET subtotal == getCartSubtotal
        tax == 0
        serviceFee == 0
    IN  [subtotal |-> subtotal, tax |-> tax, serviceFee |-> serviceFee,
         total |-> subtotal + tax + serviceFee]

\* what a cart operation returns and the cart it leaves in storage
CartResult(success, message, newCart, written) ==
    [success |-> success, message |-> message, cart |-> newCart,
     present |-> IF written THEN present \cup {STORAGE_KEYS.CART} ELSE present]

addToCart(itemId, quantity) ==
    LET found == getMenuItem(itemId) IN
    IF found = <<>> THEN
        CartResult(FALSE, "Item not found", cart, FALSE)
    ELSE IF ~found[1].available THEN
        CartResult(FALSE, "Item is not available", cart, FALSE)
    ELSE
        LET menuItem == found[1]
            i == findIndex(getCart, LAMBDA item : item.id = itemId)
        IN  IF i # 0
            THEN CartResult(TRUE, menuItem.name \o " added to cart!",
                            [getCart EXCEPT ![i].quantity = @ + quantity], TRUE)
            ELSE CartResult(TRUE, menuItem.name \o " added to cart!",
                            Append(getCart,
                                [id |-> menuItem.id, name |-> menuItem.name,
                                 price |-> menuItem.price, quantity |-> quantity]),
                            TRUE)

removeFromCart(itemId) ==
    LET filteredCart == SelectSeq(getCart, LAMBDA item : item.id # itemId) IN
    IF Len(filteredCart) = Len(getCart)
    THEN CartResult(FALSE, "Item not in cart", cart, FALSE)
    ELSE CartResult(TRUE, "Item removed from cart", filteredCart, TRUE)

updateCartQuantity(itemId, quantity) ==
    LET i == findIndex(getCart, LAMBDA item : item.id = itemId) IN
    IF quantity < 1 THEN removeFromCart(itemId)
    ELSE IF i = 0 THEN CartResult(FALSE, "Item not in cart", cart, FALSE)
    ELSE CartResult(TRUE, "Cart updated",
                    [getCart EXCEPT ![i].quantity = quantity], TRUE)

increaseQuantity(itemId) ==
    LET i == findIndex(getCart, LAMBDA item : item.id = itemId) IN
    IF i # 0
    THEN CartResult(TRUE, "", [getCart EXCEPT ![i].quantity = @ + 1], TRUE)
    ELSE CartResult(TRUE, "", cart, FALSE)

\* decreaseQuantity decrementing a line of quantity 1 instead of removing it
decreaseQuantity_belowOne(itemId) ==
    LET i == findIndex(getCart, LAMBDA item : item.id = itemId) IN
    IF i # 0
    THEN CartResult(TRUE, "", [getCart EXCEPT ![i].quantity = @ - 1], TRUE)
    ELSE CartResult(TRUE, "", cart, FALSE)

decreaseQuantity(itemId) ==
    LET i == findIndex(getCart, LAMBDA item : item.id = itemId) IN
    IF i # 0
    THEN IF getCart[i].quantity > 1
         THEN CartResult(TRUE, "", [getCart EXCEPT ![i].quantity = @ - 1], TRUE)
         ELSE removeFromCart(itemId)
    ELSE CartResult(TRUE, "", cart, FALSE)

clearCart == <<>>

----------------------------------------------------------------------------
(* Orders                                                                   *)

getAllOrders == orders

\* generateToken numbering by the orders ever placed instead of by the
\* stored orders of the day
generateToken_fromIdCounter(t) ==
    [prefix |-> "TKN", dateStr |-> toDateString(t),
     sequenceNum |-> padStart(toDigits(idSeq["order"] + 1), 4)]

\* generateToken() when its `new Date()` reads the instant t:
\* `TKN-${dateStr}-${sequenceNum}`
generateToken(t) ==
    LET todayOrders ==
            SelectSeq(orders,
                LAMBDA order : toDateString(order.createdAt) = toDateString(t))
        sequenceNum == padStart(toDigits(Len(todayOrders) + 1), 4)
    IN  [prefix |-> "TKN", dateStr |-> toDateString(t), sequenceNum |-> sequenceNum]

\* the order literal built by createOrder; tTok, tHist, tCreated, tUpdated
\* are what its four reads of the clock returned
newOrder(tTok, tHist, tCreated, tUpdated) ==
    LET totals == getCartTotals
        token == generateToken(tTok)
    IN  [id |-> generateId("order"),
         token |-> token,
         userId |-> getCurrentUser.id,
         userName |-> getCurrentUser.name,
         userEmail |-> getCurrentUser.email,
         items |-> mapSeq(getCart, LAMBDA item :
                      [id |-> item.id, name |-> item.name, price |-> item.price,
                       quantity |-> item.quantity,
                       subtotal |-> item.price * item.quantity]),
         subtotal |-> totals.subtotal,
         tax |-> totals.tax,
         total |-> totals.total,
         status |-> ORDER_STATUS.PENDING,
         statusHistory |-> << [status |-> ORDER_STATUS.PENDING,
                               timestamp |-> tHist,
                               note |-> <<"Order placed">>] >>,
         createdAt |-> tCreated,
         updatedAt |-> tUpdated,
         completedAt |-> Undefined]

\* what an order operation returns (success, message, order) and what it
\* leaves in storage
OrderResult(success, message, order, newOrders, newCart, newPresent, newIdSeq, newNow) ==
    [success |-> success, message |-> message, order |-> order,
     orders |-> newOrders, cart |-> newCart, present |-> newPresent,
     idSeq |-> newIdSeq, now |-> newNow]

OrderFailure(message) ==
    OrderResult(FALSE, message, <<>>, orders, cart, present, idSeq, now)

\* createOrder without its check of the current user
createOrder_noLoginCheck(tTok, tHist, tCreated, tUpdated) ==
    IF Len(getCart) = 0 THEN
        OrderFailure("Cart is empty")
    ELSE
        LET order == newOrder(tTok, tHist, tCreated, tUpdated) IN
        OrderResult(TRUE, "Order placed successfully!", <<order>>,
                    Append(orders, order), clearCart,
                    present \cup {STORAGE_KEYS.ORDERS, STORAGE_KEYS.CART},
                    [idSeq EXCEPT !["order"] = @ + 1], tUpdated)

\* createOrder saving the new order alone instead of pushing it onto the
\* stored collection
createOrder_collectionReplaced(tTok, tHist, tCreated, tUpdated) ==
    IF Len(getCart) = 0 THEN
        OrderFailure("Cart is empty")
    ELSE IF getCurrentUser = NullUser THEN
        OrderFailure("Please login to place order")
    ELSE
        LET order == newOrder(tTok, tHist, tCreated, tUpdated) IN
        OrderResult(TRUE, "Order placed successfully!", <<order>>,
                    <<order>>, clearCart,
                    present \cup {STORAGE_KEYS.ORDERS, STORAGE_KEYS.CART},
                    [idSeq EXCEPT !["order"] = @ + 1], tUpdated)

\* createOrder putting the new order in front of the collection (unshift
\* for push)
createOrder_prepended(tTok, tHist, tCreated, tUpdated) ==
    IF Len(getCart) = 0 THEN
        OrderFailure("Cart is empty")
    ELSE IF getCurrentUser = NullUser THEN
        OrderFailure("Please login to place order")
    ELSE
        LET order == newOrder(tTok, tHist, tCreated, tUpdated) IN
        OrderResult(TRUE, "Order placed successfully!", <<order>>,
                    <<order>> \o orders, clearCart,
                    present \cup {STORAGE_KEYS.ORDERS, STORAGE_KEYS.CART},
                    [idSeq EXCEPT !["order"] = @ + 1], tUpdated)

createOrder(tTok, tHist, tCreated, tUpdated) ==
    IF Len(getCart) = 0 THEN
        OrderFailure("Cart is empty")
    ELSE IF getCurrentUser = NullUser THEN
        OrderFailure("Please login to place order")
    ELSE
        LET order == newOrder(tTok, tHist, tCreated, tUpdated)
            pushed == Append(orders, order)
        IN  OrderResult(TRUE, "Order placed successfully!", <<order>>,
                        saveToStorage(orders, pushed),
                        saveToStorage(cart, clearCart),
                        present \cup keyWritten(STORAGE_KEYS.ORDERS, orders, pushed)
                                \cup keyWritten(STORAGE_KEYS.CART, cart, clearCart),
                        [idSeq EXCEPT !["order"] = @ + 1], tUpdated)

\* note || `Status changed to ${newStatus}`
noteOrDefault(note, newStatus) ==
    IF note = <<>> THEN <<"Status changed to", newStatus>> ELSE note

\* updateOrderStatus overwriting the history with the new entry instead of
\* pushing it
updatedOrder_historyReplaced(order, newStatus, note, tHist, tUpdated, tCompleted) ==
    LET pushed == [order EXCEPT
                    !.statusHistory = << [status |-> newStatus,
                                          timestamp |-> tHist,
                                          note |-> noteOrDefault(note, newStatus)] >>,
                    !.status = newStatus,
                    !.updatedAt = tUpdated]
    IN  IF newStatus = ORDER_STATUS.COMPLETED
        THEN [pushed EXCEPT !.completedAt = tCompleted]
        ELSE pushed

\* updateOrderStatus stamping completedAt on the transition to ready
\* instead of the transition to completed
updatedOrder_completedOnReady(order, newStatus, note, tHist, tUpdated, tCompleted) ==
    LET pushed == [order EXCEPT
                    !.statusHistory = Append(@, [status |-> newStatus,
                                                 timestamp |-> tHist,
                                                 note |-> noteOrDefault(note, newStatus)]),
                    !.status = newStatus,
                    !.updatedAt = tUpdated]
    IN  IF newStatus = ORDER_STATUS.READY
        THEN [pushed EXCEPT !.completedAt = tCompleted]
        ELSE pushed

\* updateOrderStatus pushing the history entry and forgetting
\* `orders[orderIndex].status = newStatus`
updatedOrder_statusKept(order, newStatus, note, tHist, tUpdated, tCompleted) ==
    LET pushed == [order EXCEPT
                    !.statusHistory = Append(@, [status |-> newStatus,
                                                 timestamp |-> tHist,
                                                 note |-> noteOrDefault(note, newStatus)]),
                    !.updatedAt = tUpdated]
    IN  IF newStatus = ORDER_STATUS.COMPLETED
        THEN [pushed EXCEPT !.completedAt = tCompleted]
        ELSE pushed

\* updateOrderStatus stamping createdAt along with updatedAt
updatedOrder_createdAtTouched(order, newStatus, note, tHist, tUpdated, tCompleted) ==
    LET pushed == [order EXCEPT
                    !.statusHistory = Append(@, [status |-> newStatus,
                                                 timestamp |-> tHist,
                                                 note |-> noteOrDefault(note, newStatus)]),
                    !.status = newStatus,
                    !.createdAt = tUpdated,
                    !.updatedAt = tUpdated]
    IN  IF newStatus = ORDER_STATUS.COMPLETED
        THEN [pushed EXCEPT !.completedAt = tCompleted]
        ELSE pushed

\* the order as rewritten by updateOrderStatus; tHist, tUpdated, tCompleted
\* are what its reads of the clock returned
updatedOrder(order, newStatus, note, tHist, tUpdated, tCompleted) ==
    LET pushed == [order EXCEPT
                    !.statusHistory = Append(@, [status |-> newStatus,
                                                 timestamp |-> tHist,
                                                 note |-> noteOrDefault(note, newStatus)]),
                    !.status = newStatus,
                    !.updatedAt = tUpdated]
    IN  IF newStatus = ORDER_STATUS.COMPLETED
        THEN [pushed EXCEPT !.completedAt = tCompleted]
        ELSE pushed

\* updateOrderStatus without its `orderIndex === -1` return: index -1
\* addresses the last stored order
updateOrderStatus_lastOnMiss(orderId, newStatus, note, tHist, tUpdated, tCompleted) ==
    LET found == findIndex(getAllOrders, LAMBDA o : o.id = orderId)
        orderIndex == IF found = 0 THEN Len(orders) ELSE found
    IN
    IF orderIndex = 0 THEN
        OrderFailure("Order not found")
    ELSE
        LET order == updatedOrder(orders[orderIndex], newStatus, note, tHist,
                                  tUpdated, tCompleted)
        IN  OrderResult(TRUE, "Order status updated to " \o newStatus, <<order>>,
                        [orders EXCEPT ![orderIndex] = order], cart,
                        present \cup {STORAGE_KEYS.ORDERS}, idSeq,
                        IF newStatus = ORDER_STATUS.COMPLETED
                        THEN tCompleted ELSE tUpdated)

\* updateOrderStatus refusing to move an order out of completed or cancelled
updateOrderStatus_terminalRejected(orderId, newStatus, note, tHist, tUpdated, tCompleted) ==
    LET orderIndex == findIndex(getAllOrders, LAMBDA o : o.id = orderId) IN
    IF orderIndex = 0 THEN
        OrderFailure("Order not found")
    ELSE IF orders[orderIndex].status \in {ORDER_STATUS.COMPLETED,
                                           ORDER_STATUS.CANCELLED} THEN
        OrderFailure("Order is closed")
    ELSE
        LET order == updatedOrder(orders[orderIndex], newStatus, note, tHist,
                                  tUpdated, tCompleted)
        IN  OrderResult(TRUE, "Order status updated to " \o newStatus, <<order>>,
                        [orders EXCEPT ![orderIndex] = order], cart,
                        present \cup {STORAGE_KEYS.ORDERS}, idSeq,
                        IF newStatus = ORDER_STATUS.COMPLETED
                        THEN tCompleted ELSE tUpdated)

updateOrderStatus(orderId, newStatus, note, tHist, tUpdated, tCompleted) ==
    LET orderIndex == findIndex(getAllOrders, LAMBDA o : o.id = orderId) IN
    IF orderIndex = 0 THEN
        OrderFailure("Order not found")
    ELSE
        LET order == updatedOrder(orders[orderIndex], newStatus, note, tHist,
                                  tUpdated, tCompleted)
            rewritten == [orders EXCEPT ![orderIndex] = order]
        IN  OrderResult(TRUE, "Order status updated to " \o newStatus, <<order>>,
                        saveToStorage(orders, rewritten), cart,
                        present \cup keyWritten(STORAGE_KEYS.ORDERS, orders, rewritten),
                        idSeq,
                        IF newStatus = ORDER_STATUS.COMPLETED
                        THEN tCompleted ELSE tUpdated)

\* getOrderByToken matching on the sequence number and not on the date
getOrderByToken_bySequence(token) ==
    LET i == findIndex(getAllOrders,
                       LAMBDA order : order.token.sequenceNum = token.sequenceNum)
    IN  IF i = 0 THEN <<>> ELSE <<getAllOrders[i]>>

\* getOrderByToken(token): the first order with the token, <<>> for null
getOrderByToken(token) ==
    LET i == findIndex(getAllOrders, LAMBDA order : order.token = token)
    IN  IF i = 0 THEN <<>> ELSE <<getAllOrders[i]>>

\* getOrderById(orderId): the first order with the id, <<>> for null
getOrderById(orderId) ==
    LET i == findIndex(getAllOrders, LAMBDA order : order.id = orderId)
    IN  IF i = 0 THEN <<>> ELSE <<getAllOrders[i]>>

\* the comparator `new Date(a.createdAt) - new Date(b.createdAt)`, and the
\* one with a and b exchanged when descending
compareCreatedAt(a, b, descending) ==
    IF descending THEN b.createdAt - a.createdAt ELSE a.createdAt - b.createdAt

\* o put into the sorted sequence s behind every element that the
\* comparator does not place after it (Array.prototype.sort is stable)
insertSorted(s, o, descending) ==
    LET k == Cardinality({i \in 1 .. Len(s) :
                            compareCreatedAt(s[i], o, descending) <= 0})
    IN  SubSeq(s, 1, k) \o <<o>> \o SubSeq(s, k + 1, Len(s))

\* .sort((a, b) => ...) on createdAt
RECURSIVE sortByCreatedAt(_, _)
sortByCreatedAt(s, descending) ==
    IF s = <<>> THEN <<>>
    ELSE insertSorted(sortByCreatedAt(SubSeq(s, 1, Len(s) - 1), descending),
                      s[Len(s)], descending)

\* getUserOrders sorting oldest first
getUserOrders_oldestFirst(userId) ==
    [returned |-> sortByCreatedAt(
                     SelectSeq(getAllOrders, LAMBDA order : order.userId = userId),
                     FALSE),
     orders |-> orders]

\* getUserOrders(userId): what it returns, and the collection storage holds
\* when it has returned (filter copies; nothing is saved)
getUserOrders(userId) ==
    [returned |-> sortByCreatedAt(
                     SelectSeq(getAllOrders, LAMBDA order : order.userId = userId),
                     TRUE),
     orders |-> orders]

activeStatuses ==
    {ORDER_STATUS.PENDING, ORDER_STATUS.PREPARING, ORDER_STATUS.READY}

\* getActiveOrders without the sort
getActiveOrders_unsorted ==
    SelectSeq(getAllOrders, LAMBDA order : order.status \in activeStatuses)

getActiveOrders ==
    sortByCreatedAt(
        SelectSeq(getAllOrders, LAMBDA order : order.status \in activeStatuses),
        FALSE)

\* the lines of the orders os, order after order
RECURSIVE linesOf(_)
linesOf(os) == IF os = <<>> THEN <<>> ELSE os[1].items \o linesOf(Tail(os))

\* the array index a property key is, or Undefined for a key that is not
\* the canonical form of an integer, over the item names of the model
arrayIndex(name) ==
    CASE name = "7" -> 7
      [] name = "65" -> 65
      [] OTHER -> Undefined

\* the keys of itemCounts in the order the assignments created them
RECURSIVE createdKeys(_)
createdKeys(lines) ==
    IF lines = <<>> THEN <<>>
    ELSE LET earlier == createdKeys(SubSeq(lines, 1, Len(lines) - 1))
             name == lines[Len(lines)].name
         IN  IF \E k \in 1 .. Len(earlier) : earlier[k] = name
             THEN earlier ELSE Append(earlier, name)

\* the keys among keys that are array indices, in ascending order
RECURSIVE indexKeys(_)
indexKeys(keys) ==
    IF keys = <<>> THEN <<>>
    ELSE LET least == CHOOSE k \in 1 .. Len(keys) :
                         \A l \in 1 .. Len(keys) :
                            arrayIndex(keys[k]) <= arrayIndex(keys[l])
         IN  <<keys[least]>>
             \o indexKeys(SubSeq(keys, 1, least - 1)
                          \o SubSeq(keys, least + 1, Len(keys)))

\* Object.entries(itemCounts) as {name, count}: integer keys first, in
\* ascending order, then the other keys in the order they were created
itemCountEntries(lines) ==
    LET keys == createdKeys(lines)
        ordered == indexKeys(SelectSeq(keys,
                       LAMBDA name : arrayIndex(name) # Undefined))
                   \o SelectSeq(keys, LAMBDA name : arrayIndex(name) = Undefined)
    IN  mapSeq(ordered, LAMBDA name :
            [name |-> name,
             count |-> reduceSum(mapSeq(
                          SelectSeq(lines, LAMBDA item : item.name = name),
                          LAMBDA item : item.quantity))])

\* .sort((a, b) => b.count - a.count), a stable sort
RECURSIVE sortByCount(_)
sortByCount(s) ==
    IF s = <<>> THEN <<>>
    ELSE LET sorted == sortByCount(SubSeq(s, 1, Len(s) - 1))
             e == s[Len(s)]
             k == Cardinality({i \in 1 .. Len(sorted) :
                                 e.count - sorted[i].count <= 0})
         IN  SubSeq(sorted, 1, k) \o <<e>> \o SubSeq(sorted, k + 1, Len(sorted))

\* .slice(0, end)
slice(s, end) == SubSeq(s, 1, IF Len(s) < end THEN Len(s) ELSE end)

\* the report getDailyReport builds from the orders of the day
dailyReport(date, dayOrders) ==
    LET completedOrders == SelectSeq(dayOrders,
                              LAMBDA o : o.status = ORDER_STATUS.COMPLETED)
        popularItems == slice(sortByCount(itemCountEntries(linesOf(completedOrders))),
                              5)
        revenue == reduceSum(mapSeq(completedOrders, LAMBDA o : o.total))
    IN  [date |-> toDateString(date),
         totalOrders |-> Len(dayOrders),
         completedOrders |-> Len(completedOrders),
         cancelledOrders |-> Len(SelectSeq(dayOrders,
                                LAMBDA o : o.status = ORDER_STATUS.CANCELLED)),
         revenue |-> revenue,
         averageOrderValue |-> IF Len(completedOrders) > 0
                               THEN <<revenue, Len(completedOrders)>>
                               ELSE <<0, 1>>,
         popularItems |-> popularItems]

\* getDailyReport taking the orders completed on the date instead of the
\* orders created on it
getDailyReport_byCompletionDate(date) ==
    dailyReport(date,
                SelectSeq(getAllOrders, LAMBDA o :
                    /\ o.completedAt # Undefined
                    /\ toDateString(o.completedAt) = toDateString(date)))

\* getDailyReport(date); averageOrderValue is kept as the exact quotient
\* <<dividend, divisor>>
getDailyReport(date) ==
    dailyReport(date,
                SelectSeq(getAllOrders, LAMBDA o :
                    toDateString(o.createdAt) = toDateString(date)))

\* ordered units of a cart and of an order collection plus the orders'
\* status-history entries
Used(c, os) ==
    reduceSum(mapSeq(c, LAMBDA item : item.quantity))
    + reduceSum(mapSeq(os, LAMBDA o :
        Len(o.statusHistory)
        + reduceSum(mapSeq(o.items, LAMBDA item : item.quantity))))

\* the cart c, the orders os and n administrative writes are within the
\* bounds of the model
WithinBounds(c, os, n) ==
    /\ Used(c, os) + EditWeight * n <= MaxLoad
    /\ \A i \in 1 .. Len(c) : c[i].quantity <= MaxQuantity

\* successive reads of the clock never go back
ClockReads(ts) ==
    /\ now <= ts[1]
    /\ \A i \in 1 .. (Len(ts) - 1) : ts[i] <= ts[i + 1]

\* an order operation applied to storage
ApplyOrder(r) ==
    /\ WithinBounds(r.cart, r.orders, edits)
    /\ orders' = r.orders
    /\ cart' = r.cart
    /\ present' = r.present
    /\ idSeq' = r.idSeq
    /\ now' = r.now
    /\ UNCHANGED <<page, users, currentUser, menuItems, shopLocation, staffMembers,
                   edits>>

\* a cart operation applied to storage
ApplyCart(r) ==
    /\ WithinBounds(r.cart, orders, edits)
    /\ cart' = r.cart
    /\ present' = r.present
    /\ UNCHANGED <<page, now, users, currentUser, menuItems, orders, shopLocation,
                   staffMembers, idSeq, edits>>

----------------------------------------------------------------------------
(* Menu catalog (js/menu.js)                                                *)

getMenuItems == menuItems

\* String.prototype.trim over the texts the forms of the model submit
trim(text) ==
    CASE text = "  " -> ""
      [] text = " Tea " -> "Tea"
      [] OTHER -> text

\* parseFloat over the prices the forms of the model submit
parseFloat(text) ==
    CASE text = "120" -> 120
      [] text = "-120" -> 0 - 120
      [] text = "0" -> 0

\* what a catalog operation returns and the catalog it leaves in storage
MenuResult(success, message, items, newIdSeq) ==
    [success |-> success, message |-> message, menuItems |-> items,
     idSeq |-> newIdSeq]

addMenuItem(itemData) ==
    IF itemData.name = "" \/ itemData.price = "" \/ itemData.category = "" THEN
        MenuResult(FALSE, "Name, price, and category are required", menuItems,
                   idSeq)
    ELSE
        MenuResult(TRUE, "Menu item added successfully!",
                   Append(getMenuItems,
                          [id |-> generateId("item"), name |-> trim(itemData.name),
                           price |-> parseFloat(itemData.price),
                           available |-> TRUE]),
                   [idSeq EXCEPT !["item"] = @ + 1])

updateMenuItem(itemId, updateData) ==
    LET index == findIndex(getMenuItems, LAMBDA item : item.id = itemId) IN
    IF index = 0 THEN MenuResult(FALSE, "Item not found", menuItems, idSeq)
    ELSE MenuResult(TRUE, "Menu item updated successfully!",
                    [getMenuItems EXCEPT ![index] =
                        [@ EXCEPT !.name = updateData.name,
                                  !.price = updateData.price]],
                    idSeq)

deleteMenuItem(itemId) ==
    LET filteredItems == SelectSeq(getMenuItems, LAMBDA item : item.id # itemId) IN
    IF Len(filteredItems) = Len(getMenuItems)
    THEN MenuResult(FALSE, "Item not found", menuItems, idSeq)
    ELSE MenuResult(TRUE, "Menu item deleted successfully!", filteredItems,
                    idSeq)

toggleItemAvailability(itemId) ==
    LET i == findIndex(getMenuItems, LAMBDA item : item.id = itemId) IN
    IF i = 0 THEN MenuResult(FALSE, "Item not found", menuItems, idSeq)
    ELSE MenuResult(TRUE, "Item availability changed",
                    [getMenuItems EXCEPT ![i].available = ~@], idSeq)

----------------------------------------------------------------------------
(* Staff roster, shop location and accounts (js/admin.js)                   *)

getStaffMembers == staffMembers

\* isValidEmail: /^[^\s@]+@[^\s@]+\.[^\s@]+$/ over the addresses of the model
isValidEmail(email) ==
    email \in {"admin@canteen.com", "john@canteen.com", "sarah@canteen.com",
               "u1@canteen.com"}

\* what a roster or account operation returns and what it leaves in storage
AccountResult(success, message, newUsers, newStaff) ==
    [success |-> success, message |-> message, users |-> newUsers,
     staffMembers |-> newStaff,
     idSeq |-> IF Len(newUsers) > Len(users)
               THEN [idSeq EXCEPT !["user"] = @ + 1] ELSE idSeq]

addStaffMember(staffData) ==
    IF staffData.name = "" \/ staffData.email = "" \/ staffData.password = "" THEN
        AccountResult(FALSE, "All fields are required", users, staffMembers)
    ELSE IF ~isValidEmail(staffData.email) THEN
        AccountResult(FALSE, "Please enter a valid email", users, staffMembers)
    ELSE IF \E i \in 1 .. Len(users) : users[i].email = staffData.email THEN
        AccountResult(FALSE, "Email already registered", users, staffMembers)
    ELSE
        LET newStaff == [id |-> generateId("user"), name |-> trim(staffData.name),
                         email |-> staffData.email,
                         password |-> staffData.password,
                         role |-> USER_ROLES.STAFF, ordersCompleted |-> 0]
        IN  AccountResult(TRUE, "Staff member added successfully!",
                          saveToStorage(users, Append(users, asUser(newStaff))),
                          saveToStorage(getStaffMembers,
                                        Append(getStaffMembers, newStaff)))

removeStaffMember(staffId) ==
    LET filteredStaff == SelectSeq(getStaffMembers, LAMBDA m : m.id # staffId)
        filteredUsers == SelectSeq(users, LAMBDA u : u.id # staffId)
    IN  IF Len(filteredStaff) = Len(getStaffMembers)
        THEN AccountResult(FALSE, "Staff member not found", users, staffMembers)
        ELSE AccountResult(TRUE, "Staff member removed successfully!",
                           filteredUsers, filteredStaff)

registerUser(userData) ==
    IF userData.name = "" \/ userData.email = "" \/ userData.password = "" THEN
        AccountResult(FALSE, "All fields are required", users, staffMembers)
    ELSE IF ~isValidEmail(userData.email) THEN
        AccountResult(FALSE, "Please enter a valid email address", users,
                      staffMembers)
    ELSE IF Len(userData.password) < 6 THEN
        AccountResult(FALSE, "Password must be at least 6 characters", users,
                      staffMembers)
    ELSE IF \E i \in 1 .. Len(users) : users[i].email = userData.email THEN
        AccountResult(FALSE, "Email already registered", users, staffMembers)
    ELSE
        LET newUser == [id |-> generateId("user"), name |-> userData.name,
                        email |-> userData.email,
                        password |-> userData.password, role |-> userData.role]
        IN  AccountResult(TRUE, "Registration successful!",
                          Append(users, newUser),
                          IF userData.role = USER_ROLES.STAFF
                          THEN Append(staffMembers,
                                      [id |-> newUser.id, name |-> newUser.name,
                                       email |-> newUser.email,
                                       password |-> newUser.password,
                                       role |-> newUser.role,
                                       ordersCompleted |-> 0])
                          ELSE staffMembers)

saveShopLocation(locationData) ==
    IF locationData.name = "" \/ locationData.address = ""
    THEN [success |-> FALSE, message |-> "Name and address are required",
          shopLocation |-> shopLocation]
    ELSE [success |-> TRUE, message |-> "Shop location saved successfully!",
          shopLocation |-> << [name |-> trim(locationData.name),
                               address |-> trim(locationData.address)] >>]

----------------------------------------------------------------------------
(* Authentication                                                           *)

\* what loginUser returns and the session it leaves in storage
AuthResult(success, message, session) ==
    [success |-> success, message |-> message, currentUser |-> session,
     present |-> IF success THEN present \cup {STORAGE_KEYS.CURRENT_USER}
                 ELSE present]

loginUser(email, password, expectedRole) ==
    LET i == findIndex(users, LAMBDA u : u.email = email) IN
    IF email = "" \/ password = "" THEN
        AuthResult(FALSE, "Email and password are required", currentUser)
    ELSE IF i = 0 THEN
        AuthResult(FALSE, "Invalid email or password", currentUser)
    ELSE IF users[i].password # password THEN
        AuthResult(FALSE, "Invalid email or password", currentUser)
    ELSE IF expectedRole # "" /\ users[i].role # expectedRole THEN
        AuthResult(FALSE, "This login is for another role", currentUser)
    ELSE
        AuthResult(TRUE, "Login successful!",
                   [id |-> users[i].id, name |-> users[i].name,
                    email |-> users[i].email, role |-> users[i].role])

logoutUser ==
    /\ currentUser' = NullUser
    /\ cart' = <<>>
    /\ present' = present \ {STORAGE_KEYS.CURRENT_USER, STORAGE_KEYS.CART}
    /\ UNCHANGED <<page, now, users, menuItems, orders, shopLocation, staffMembers,
                   idSeq, edits>>

----------------------------------------------------------------------------
(* Handlers                                                                 *)

\* what is typed into the login form of a role's login page
LoginInputs ==
    { [email |-> "john@canteen.com", password |-> "staff123",
       role |-> USER_ROLES.STAFF],
      [email |-> "john@canteen.com", password |-> "staff123",
       role |-> USER_ROLES.CUSTOMER],
      [email |-> "john@canteen.com", password |-> "wrong",
       role |-> USER_ROLES.STAFF],
      [email |-> "u1@canteen.com", password |-> "secret1",
       role |-> USER_ROLES.CUSTOMER],
      [email |-> "", password |-> "", role |-> USER_ROLES.CUSTOMER] }

\* submit of a login form (setupLoginForm)
LoginSubmit ==
    \E c \in LoginInputs :
        LET r == loginUser(c.email, c.password, c.role) IN
        /\ currentUser' = r.currentUser
        /\ present' = r.present
        /\ UNCHANGED <<page, now, users, menuItems, cart, orders, shopLocation,
                       staffMembers, idSeq, edits>>

\* click on a logout button (setupLogoutButton)
LogoutClick == logoutUser

\* click on an "Add to Cart" button (setupAddToCartButtons)
AddToCartClick ==
    \E itemId \in IdInputs("item") : ApplyCart(addToCart(itemId, 1))

\* the item ids of the cart lines and one id that is in no line
CartIdInputs == {cart[i].id : i \in 1 .. Len(cart)} \cup {generateId("item")}

\* click on a cart line's remove button (setupCartHandlers)
RemoveFromCartClick ==
    \E itemId \in CartIdInputs : ApplyCart(removeFromCart(itemId))

\* createOrder() called as the order repository's create operation
CreateOrder ==
    \E tTok, tHist, tCreated, tUpdated \in Time :
        /\ ClockReads(<<tTok, tHist, tCreated, tUpdated>>)
        /\ ApplyOrder(createOrder(tTok, tHist, tCreated, tUpdated))

\* click on "Place Order" (handlePlaceOrder)
handlePlaceOrder ==
    IF Len(getCart) = 0 THEN UNCHANGED vars
    ELSE IF getCurrentUser = NullUser THEN UNCHANGED vars
    ELSE CreateOrder

\* the statuses and notes the callers of updateOrderStatus pass
StatusInputs == Statuses \ {ORDER_STATUS.PENDING}

\* updateOrderStatus() called as the order repository's transition operation
UpdateOrderStatus ==
    \E orderId \in IdInputs("order"), newStatus \in StatusInputs :
    \E tHist, tUpdated, tCompleted \in Time :
        /\ ClockReads(<<tHist, tUpdated, tCompleted>>)
        /\ newStatus # ORDER_STATUS.COMPLETED => tCompleted = tUpdated
        /\ ApplyOrder(updateOrderStatus(orderId, newStatus, <<>>, tHist,
                                        tUpdated, tCompleted))

\* click on a cart line's + or - button (setupCartHandlers)
IncreaseQuantityClick ==
    \E itemId \in CartIdInputs : ApplyCart(increaseQuantity(itemId))

DecreaseQuantityClick ==
    \E itemId \in CartIdInputs : ApplyCart(decreaseQuantity(itemId))

\* updateCartQuantity() called as an operation of the cart module
UpdateCartQuantity ==
    \E itemId \in CartIdInputs, quantity \in {0, MaxQuantity} :
        ApplyCart(updateCartQuantity(itemId, quantity))

\* an administrative write: one more edit within the bounds of the model
CountEdit(success) ==
    /\ success => WithinBounds(cart, orders, edits + 1)
    /\ edits' = IF success THEN edits + 1 ELSE edits

\* a catalog operation that also rewrites the prices kept in the stored
\* orders' lines from the catalog
ApplyMenu_ordersRepriced(r) ==
    /\ CountEdit(r.success)
    /\ menuItems' = r.menuItems
    /\ idSeq' = r.idSeq
    /\ present' = IF r.success THEN present \cup {STORAGE_KEYS.MENU_ITEMS}
                  ELSE present
    /\ orders' = [i \in DOMAIN orders |->
                    [orders[i] EXCEPT !.items =
                        [k \in DOMAIN orders[i].items |->
                            LET line == orders[i].items[k]
                                at == findIndex(r.menuItems,
                                                LAMBDA m : m.id = line.id)
                            IN  IF at = 0 THEN line
                                ELSE [line EXCEPT !.price = r.menuItems[at].price]]]]
    /\ UNCHANGED <<page, now, users, currentUser, cart, shopLocation,
                   staffMembers>>

\* a catalog operation applied to storage
ApplyMenu(r) ==
    /\ CountEdit(r.success)
    /\ menuItems' = r.menuItems
    /\ idSeq' = r.idSeq
    /\ present' = IF r.success THEN present \cup {STORAGE_KEYS.MENU_ITEMS}
                  ELSE present
    /\ UNCHANGED <<page, now, users, currentUser, cart, orders, shopLocation,
                   staffMembers>>

\* what the add-item and edit-item forms submit
MenuItemInputs ==
    { [name |-> "Tea", price |-> "120", category |-> "Beverages"],
      [name |-> "", price |-> "120", category |-> "Beverages"] }

PriceInputs == {400}

\* submit of the add-item form (setupAddItemForm)
AddItemSubmit == \E itemData \in MenuItemInputs : ApplyMenu(addMenuItem(itemData))

\* submit of the edit-item form (setupEditItemForm), the price edited
EditItemSubmit ==
    \E i \in 1 .. Len(menuItems), price \in PriceInputs :
        ApplyMenu(updateMenuItem(menuItems[i].id,
                                 [name |-> menuItems[i].name, price |-> price]))

\* clicks in the menu management table (setupMenuManagementHandlers)
DeleteItemClick ==
    \E itemId \in IdInputs("item") : ApplyMenu(deleteMenuItem(itemId))

ToggleAvailabilityClick ==
    \E itemId \in IdInputs("item") : ApplyMenu(toggleItemAvailability(itemId))

\* a roster or account operation applied to storage
ApplyAccount(r, staffWritten) ==
    /\ CountEdit(r.success)
    /\ users' = r.users
    /\ staffMembers' = r.staffMembers
    /\ idSeq' = r.idSeq
    /\ present' = IF r.success
                  THEN present \cup {STORAGE_KEYS.USERS}
                       \cup (IF staffWritten THEN {STORAGE_KEYS.STAFF_MEMBERS}
                             ELSE {})
                  ELSE present
    /\ UNCHANGED <<page, now, currentUser, menuItems, cart, orders, shopLocation>>

StaffInputs ==
    { [name |-> "Sarah Helper", email |-> "sarah@canteen.com",
       password |-> "staff123"],
      [name |-> "", email |-> "sarah@canteen.com", password |-> "staff123"] }

\* submit of the add-staff form (setupAddStaffForm)
AddStaffSubmit ==
    \E staffData \in StaffInputs : ApplyAccount(addStaffMember(staffData), TRUE)

\* click on a remove-staff button (setupStaffRemoveHandlers)
RemoveStaffClick ==
    \E staffId \in IdInputs("user") : ApplyAccount(removeStaffMember(staffId), TRUE)

RegisterInputs ==
    { [name |-> "U1", email |-> "u1@canteen.com", password |-> "secret1",
       role |-> USER_ROLES.CUSTOMER],
      [name |-> "U1", email |-> "u1@canteen.com", password |-> "short",
       role |-> USER_ROLES.CUSTOMER] }

\* submit of a registration form (setupRegisterForm)
RegisterSubmit ==
    \E userData \in RegisterInputs :
        ApplyAccount(registerUser(userData), userData.role = USER_ROLES.STAFF)

LocationInputs ==
    { [name |-> "Canteen B", address |-> "Block B"],
      [name |-> "", address |-> "Block B"] }

\* submit of the shop-location form (renderShopLocationForm)
SaveLocationSubmit ==
    \E locationData \in LocationInputs :
        LET r == saveShopLocation(locationData) IN
        /\ CountEdit(r.success)
        /\ shopLocation' = r.shopLocation
        /\ present' = IF r.success
                      THEN present \cup {STORAGE_KEYS.SHOP_LOCATION} ELSE present
        /\ UNCHANGED <<page, now, users, currentUser, menuItems, cart, orders,
                       staffMembers, idSeq>>

\* clearAllStorage() called from the console or a maintenance page
ClearAllStorage ==
    /\ WithinBounds(<<>>, <<>>, edits + 1)
    /\ clearAllStorage
    /\ edits' = edits + 1

\* DOMContentLoaded of any page (js/utils.js)
PageLoad ==
    /\ initializeSampleData
    /\ listeners' = 1
    /\ dispatch' = <<>>
    /\ orderRefreshInterval' = NoInterval
    /\ timers' = NoTimers

Next ==
    \/ PageLoad
    \/ RegisterSubmit
    \/ LoginSubmit
    \/ LogoutClick
    \/ AddToCartClick
    \/ RemoveFromCartClick
    \/ IncreaseQuantityClick
    \/ DecreaseQuantityClick
    \/ UpdateCartQuantity
    \/ CreateOrder
    \/ handlePlaceOrder
    \/ UpdateOrderStatus
    \/ AddItemSubmit
    \/ EditItemSubmit
    \/ DeleteItemClick
    \/ ToggleAvailabilityClick
    \/ AddStaffSubmit
    \/ RemoveStaffClick
    \/ SaveLocationSubmit
    \/ ClearAllStorage

Spec == Init /\ [][Next]_vars

----------------------------------------------------------------------------
(* Storage that fills up                                                    *)

\* the origin's storage reaches its quota (other keys, other pages of the
\* origin): from now on setItem throws unless the value shrinks
StorageFills ==
    /\ ~quotaExceeded
    /\ quotaExceeded' = TRUE
    /\ UNCHANGED <<timing, now, storage, idSeq, edits, listeners, dispatch, tabs>>

\* a customer logs in and fills the cart while there is room; orders are
\* placed and moved on before and after storage fills
NextQuota ==
    \/ StorageFills
    \/ ~quotaExceeded /\ LoginSubmit
    \/ ~quotaExceeded /\ AddToCartClick
    \/ CreateOrder
    \/ UpdateOrderStatus

SpecQuota == Init /\ [][NextQuota]_vars

----------------------------------------------------------------------------
(* createOrder() in two tabs that share localStorage: a tab runs its        *)
(* handler to completion, but its reads and writes of storage interleave   *)
(* with those of the other tab                                              *)

\* createOrder() of tab t up to the order literal: the checks, the totals,
\* generateToken() reading the order collection, generateId, the clock
TabBuildsOrder(t) ==
    /\ tabs[t].pc = "idle"
    /\ idSeq["order"] < MaxRacedOrders
    /\ Len(getCart) > 0
    /\ getCurrentUser # NullUser
    /\ \E tTok, tHist, tCreated, tUpdated \in Time :
          /\ ClockReads(<<tTok, tHist, tCreated, tUpdated>>)
          /\ tabs' = [tabs EXCEPT ![t] =
                        [pc |-> "push",
                         order |-> <<newOrder(tTok, tHist, tCreated, tUpdated)>>,
                         read |-> getAllOrders, local |-> <<>>]]
          /\ now' = tUpdated
    /\ idSeq' = [idSeq EXCEPT !["order"] = @ + 1]
    /\ UNCHANGED <<timing, storage, edits, quotaExceeded, listeners, dispatch>>

\* `const orders = getFromStorage(STORAGE_KEYS.ORDERS) || []` of tab t
TabReadsOrders(t) ==
    /\ tabs[t].pc = "push"
    /\ tabs' = [tabs EXCEPT ![t].pc = "save", ![t].local = getAllOrders]
    /\ UNCHANGED <<timing, now, storage, idSeq, edits, quotaExceeded, listeners, dispatch>>

\* `orders.push(order); saveToStorage(STORAGE_KEYS.ORDERS, orders)` of tab t
TabSavesOrders(t) ==
    /\ tabs[t].pc = "save"
    /\ LET pushed == Append(tabs[t].local, tabs[t].order[1]) IN
       /\ WithinBounds(cart, pushed, edits)
       /\ orders' = saveToStorage(orders, pushed)
       /\ present' = present \cup keyWritten(STORAGE_KEYS.ORDERS, orders, pushed)
    /\ tabs' = [tabs EXCEPT ![t].pc = "clear"]
    /\ UNCHANGED <<timing, now, users, currentUser, menuItems, cart, shopLocation,
                   staffMembers, idSeq, edits, quotaExceeded, listeners,
                   dispatch>>

\* `clearCart()` of tab t, after which createOrder() returns
TabClearsCart(t) ==
    /\ tabs[t].pc = "clear"
    /\ cart' = saveToStorage(cart, clearCart)
    /\ present' = present \cup keyWritten(STORAGE_KEYS.CART, cart, clearCart)
    /\ tabs' = [tabs EXCEPT ![t] = IdleTab]
    /\ UNCHANGED <<timing, now, users, currentUser, menuItems, orders, shopLocation,
                   staffMembers, idSeq, edits, quotaExceeded, listeners,
                   dispatch>>

\* some tab is between two handlers
SomeTabIdle == \E t \in Tabs : tabs[t].pc = "idle"

\* two tabs of one logged-in customer placing orders from the shared cart
NextTabs ==
    \/ SomeTabIdle /\ LoginSubmit
    \/ SomeTabIdle /\ AddToCartClick
    \/ \E t \in Tabs : TabBuildsOrder(t)
    \/ \E t \in Tabs : TabReadsOrders(t)
    \/ \E t \in Tabs : TabSavesOrders(t)
    \/ \E t \in Tabs : TabClearsCart(t)

SpecTabs == Init /\ [][NextTabs]_vars

\* every tab is between two handlers
AllTabsIdle == \A t \in Tabs : tabs[t].pc = "idle"

\* login of the administrator account of the sample data
AdminLoginSubmit ==
    LET r == loginUser("admin@canteen.com", "admin123", USER_ROLES.ADMIN) IN
    /\ currentUser' = r.currentUser
    /\ present' = r.present
    /\ UNCHANGED <<page, now, users, menuItems, cart, orders, shopLocation,
                   staffMembers, idSeq, edits>>

\* two tabs placing orders, as one account or another, while staff move the
\* stored orders on: what the order queries are asked about
NextQueries ==
    \/ AllTabsIdle /\ LoginSubmit
    \/ AllTabsIdle /\ AdminLoginSubmit
    \/ AllTabsIdle /\ AddToCartClick
    \/ \E t \in Tabs : TabBuildsOrder(t)
    \/ \E t \in Tabs : TabReadsOrders(t)
    \/ \E t \in Tabs : TabSavesOrders(t)
    \/ \E t \in Tabs : TabClearsCart(t)
    \/ AllTabsIdle /\ UpdateOrderStatus

SpecQueries == Init /\ [][NextQueries]_vars

\* the order repository with a single writer: orders are placed and moved
\* on from one tab, and nothing else writes the collection
NextOrders ==
    \/ LoginSubmit
    \/ AddToCartClick
    \/ CreateOrder
    \/ UpdateOrderStatus

SpecOrders == Init /\ [][NextOrders]_vars

----------------------------------------------------------------------------
(* Auto-refresh of the staff dashboard                                      *)

\* startOrderRefresh() starting the new interval without clearing the one
\* it kept
startOrderRefresh_withoutClear ==
    /\ timers.issued < MaxTimers
    /\ LET id == timers.issued + 1 IN
       /\ timers' = [timers EXCEPT !.active = @ \cup {id}, !.issued = id]
       /\ orderRefreshInterval' = id
    /\ UNCHANGED <<now, storage, idSeq, edits, quotaExceeded, listeners,
                   dispatch, tabs>>

\* startOrderRefresh(containerId, intervalMs)
startOrderRefresh ==
    /\ timers.issued < MaxTimers
    /\ LET cleared == IF orderRefreshInterval # NoInterval
                      THEN timers.active \ {orderRefreshInterval}
                      ELSE timers.active
           id == timers.issued + 1
       IN  /\ timers' = [timers EXCEPT !.active = cleared \cup {id},
                                       !.issued = id]
           /\ orderRefreshInterval' = id
    /\ UNCHANGED <<now, storage, idSeq, edits, quotaExceeded, listeners,
                   dispatch, tabs>>

\* stopOrderRefresh()
stopOrderRefresh ==
    /\ IF orderRefreshInterval # NoInterval
       THEN /\ timers' = [timers EXCEPT !.active = @ \ {orderRefreshInterval}]
            /\ orderRefreshInterval' = NoInterval
       ELSE UNCHANGED timing
    /\ UNCHANGED <<now, storage, idSeq, edits, quotaExceeded, listeners,
                   dispatch, tabs>>

\* an interval timer that is active fires: its callback renders the orders
\* and the statistics from storage
RefreshTick ==
    /\ \E id \in timers.active : timers' = [timers EXCEPT !.ran = id]
    /\ UNCHANGED <<now, storage, idSeq, edits, quotaExceeded, listeners,
                   dispatch, tabs, orderRefreshInterval>>

\* the staff dashboard starting and stopping its refresh while orders are
\* placed
NextRefresh ==
    \/ PageLoad
    \/ LoginSubmit
    \/ AddToCartClick
    \/ handlePlaceOrder
    \/ startOrderRefresh
    \/ stopOrderRefresh
    \/ RefreshTick

SpecRefresh == Init /\ [][NextRefresh]_vars

----------------------------------------------------------------------------
(* The administrator's forms submitting whatever text was typed into them   *)

\* what the add-item form submits: a name that is a number, a price below
\* zero, a name of spaces, no name
AdminItemInputs ==
    { [name |-> "7", price |-> "120", category |-> "Rice"],
      [name |-> "Tea", price |-> "-120", category |-> "Beverages"],
      [name |-> "  ", price |-> "120", category |-> "Beverages"],
      [name |-> "", price |-> "120", category |-> "Beverages"] }

\* submit of the add-item form (setupAddItemForm)
AdminAddItemSubmit ==
    \E itemData \in AdminItemInputs :
        LET r == addMenuItem(itemData) IN
        /\ Len(r.menuItems) <= MaxMenuItems
        /\ menuItems' = r.menuItems
        /\ idSeq' = r.idSeq
        /\ present' = IF r.success THEN present \cup {STORAGE_KEYS.MENU_ITEMS}
                      ELSE present
        /\ UNCHANGED <<page, now, users, currentUser, cart, orders, shopLocation,
                       staffMembers, edits>>

AdminStaffInputs ==
    { [name |-> "  ", email |-> "sarah@canteen.com", password |-> "staff123"],
      [name |-> "", email |-> "sarah@canteen.com", password |-> "staff123"] }

\* submit of the add-staff form (setupAddStaffForm)
AdminAddStaffSubmit ==
    \E staffData \in AdminStaffInputs :
        LET r == addStaffMember(staffData) IN
        /\ users' = r.users
        /\ staffMembers' = r.staffMembers
        /\ idSeq' = r.idSeq
        /\ present' = IF r.success
                      THEN present \cup {STORAGE_KEYS.USERS,
                                         STORAGE_KEYS.STAFF_MEMBERS}
                      ELSE present
        /\ UNCHANGED <<page, now, currentUser, menuItems, cart, orders,
                       shopLocation, edits>>

AdminLocationInputs ==
    { [name |-> "  ", address |-> "Block B"],
      [name |-> "", address |-> "Block B"] }

\* submit of the shop-location form (renderShopLocationForm)
AdminSaveLocationSubmit ==
    \E locationData \in AdminLocationInputs :
        LET r == saveShopLocation(locationData) IN
        /\ shopLocation' = r.shopLocation
        /\ present' = IF r.success
                      THEN present \cup {STORAGE_KEYS.SHOP_LOCATION} ELSE present
        /\ UNCHANGED <<page, now, users, currentUser, menuItems, cart, orders,
                       staffMembers, idSeq, edits>>

\* updateOrderStatus() called to complete an order
CompleteOrder ==
    \E orderId \in IdInputs("order") :
    \E tHist, tUpdated, tCompleted \in Time :
        /\ ClockReads(<<tHist, tUpdated, tCompleted>>)
        /\ ApplyOrder(updateOrderStatus(orderId, ORDER_STATUS.COMPLETED, <<>>,
                                        tHist, tUpdated, tCompleted))

\* the administrator filling the catalog, the roster and the location while
\* customers order and staff complete the orders
NextAdminForms ==
    \/ LoginSubmit
    \/ AdminAddItemSubmit
    \/ AdminAddStaffSubmit
    \/ AdminSaveLocationSubmit
    \/ AddToCartClick
    \/ CreateOrder
    \/ CompleteOrder

SpecAdminForms == Init /\ [][NextAdminForms]_vars

----------------------------------------------------------------------------
(* The staff dashboard                                                      *)

\* getOrderActionButtons offering Cancel on an order that is being prepared
getOrderActionButtons_cancelWhilePreparing(order) ==
    CASE order.status = ORDER_STATUS.PENDING ->
            {"start-preparing-btn", "cancel-order-btn"}
      [] order.status = ORDER_STATUS.PREPARING ->
            {"mark-ready-btn", "cancel-order-btn"}
      [] order.status = ORDER_STATUS.READY -> {"complete-order-btn"}
      [] OTHER -> {}

\* getOrderActionButtons(order): the buttons rendered on an order card
getOrderActionButtons(order) ==
    CASE order.status = ORDER_STATUS.PENDING ->
            {"start-preparing-btn", "cancel-order-btn"}
      [] order.status = ORDER_STATUS.PREPARING -> {"mark-ready-btn"}
      [] order.status = ORDER_STATUS.READY -> {"complete-order-btn"}
      [] OTHER -> {}

\* the status and the note a click listener passes for a button
buttonStatus(button) ==
    CASE button = "start-preparing-btn" -> ORDER_STATUS.PREPARING
      [] button = "mark-ready-btn" -> ORDER_STATUS.READY
      [] button = "complete-order-btn" -> ORDER_STATUS.COMPLETED
      [] button = "cancel-order-btn" -> ORDER_STATUS.CANCELLED

buttonNote(button) ==
    CASE button = "start-preparing-btn" -> <<"Started preparing">>
      [] button = "mark-ready-btn" -> <<"Food is ready for pickup">>
      [] button = "complete-order-btn" -> <<"Order collected by customer">>
      [] button = "cancel-order-btn" -> <<"Order cancelled">>

\* updateStaffPerformance(): the roster it leaves in storage
updateStaffPerformance ==
    IF getCurrentUser = NullUser \/ getCurrentUser.role # USER_ROLES.STAFF
    THEN staffMembers
    ELSE LET staffIndex == findIndex(staffMembers,
                                     LAMBDA m : m.id = getCurrentUser.id)
         IN  IF staffIndex = 0 THEN staffMembers
             ELSE saveToStorage(staffMembers,
                      [staffMembers EXCEPT ![staffIndex].ordersCompleted = @ + 1])

\* no click is being dispatched: the event loop takes the next event
EventLoopIdle == dispatch = <<>>

\* the staff dashboard is shown (protectPage(USER_ROLES.STAFF))
DashboardShown == getCurrentUser.role = USER_ROLES.STAFF

\* click on an order filter tab (setupOrderFilterTabs): re-renders and
\* calls setupStaffOrderHandlers, which adds one more click listener
FilterTabClick ==
    /\ EventLoopIdle
    /\ DashboardShown
    /\ listeners < MaxListeners
    /\ listeners' = listeners + 1
    /\ UNCHANGED <<timing, now, storage, idSeq, edits, quotaExceeded, dispatch, tabs>>

\* click on a button of a rendered order card: the event is dispatched to
\* every listener installed on the container
StaffOrderClick ==
    /\ EventLoopIdle
    /\ DashboardShown
    /\ listeners > 0
    /\ \E i \in 1 .. Len(orders) :
         \E button \in getOrderActionButtons(orders[i]) :
            dispatch' = << [orderId |-> orders[i].id, button |-> button,
                            left |-> listeners] >>
    /\ UNCHANGED <<timing, now, storage, idSeq, edits, quotaExceeded, listeners, tabs>>

\* one click listener of setupStaffOrderHandlers handles the event; the
\* cancel button asks confirm() first
RunListener ==
    /\ dispatch # <<>>
    /\ LET click == dispatch[1]
           newStatus == buttonStatus(click.button)
       IN  \E confirmed \in BOOLEAN :
           \E tHist, tUpdated, tCompleted \in Time :
           LET r == updateOrderStatus(click.orderId, newStatus,
                                      buttonNote(click.button),
                                      tHist, tUpdated, tCompleted)
               runs == click.button = "cancel-order-btn" => confirmed
           IN  /\ click.button # "cancel-order-btn" => confirmed
               /\ ClockReads(<<tHist, tUpdated, tCompleted>>)
               /\ newStatus # ORDER_STATUS.COMPLETED => tCompleted = tUpdated
               /\ ~confirmed => tHist = now /\ tUpdated = now
               /\ WithinBounds(r.cart, r.orders, edits)
               /\ orders' = IF runs THEN r.orders ELSE orders
               /\ present' = IF runs THEN r.present ELSE present
               /\ now' = IF runs THEN r.now ELSE now
               /\ staffMembers' =
                     IF runs /\ r.success
                        /\ newStatus = ORDER_STATUS.COMPLETED
                     THEN updateStaffPerformance ELSE staffMembers
               /\ dispatch' = IF click.left = 1 THEN <<>>
                              ELSE << [click EXCEPT !.left = @ - 1] >>
    /\ UNCHANGED <<timing, users, currentUser, menuItems, cart, shopLocation, idSeq,
                   edits, quotaExceeded, listeners, tabs>>

\* the staff dashboard in use: customers place orders through the cart
\* page, and order statuses change only through the dashboard's buttons
NextStaffUI ==
    \/ EventLoopIdle /\ PageLoad
    \/ EventLoopIdle /\ LoginSubmit
    \/ EventLoopIdle /\ AddToCartClick
    \/ EventLoopIdle /\ handlePlaceOrder
    \/ FilterTabClick
    \/ StaffOrderClick
    \/ RunListener

SpecStaffUI == Init /\ [][NextStaffUI]_vars


----------------------------------------------------------------------------
(* Properties                                                               *)

\* the clock reads an operation can make in the current state
Reads(n) == {ts \in [1 .. n -> Time] : ClockReads(ts)}

\* sum of price x quantity over order or cart lines
RECURSIVE SumOfLines(_)
SumOfLines(lines) ==
    IF lines = <<>> THEN 0
    ELSE lines[1].price * lines[1].quantity + SumOfLines(Tail(lines))

\* an order whose amounts are those of its lines
AmountsAddUp(o) ==
    /\ o.total = SumOfLines(o.items)
    /\ o.subtotal = o.total
    /\ o.tax = 0
    /\ \A i \in 1 .. Len(o.items) :
           o.items[i].subtotal = o.items[i].price * o.items[i].quantity

\* C1: with a non-empty cart and a logged-in user, createOrder succeeds and
\* returns (and appends) an order whose total and subtotal are the sum of
\* price x quantity over the cart lines, with tax 0, whose every line has
\* subtotal = price x quantity, whose status is pending and whose
\* statusHistory is one entry with status pending; every stored order keeps
\* amounts that add up.
C1_OrderTotals ==
    /\ \A i \in 1 .. Len(orders) : AmountsAddUp(orders[i])
    /\ (Len(cart) > 0 /\ currentUser # NullUser) =>
          \A ts \in Reads(4) :
             LET r == createOrder(ts[1], ts[2], ts[3], ts[4]) IN
             /\ r.success
             /\ Len(r.order) = 1
             /\ r.orders = Append(orders, r.order[1])
             /\ r.order[1].total = SumOfLines(cart)
             /\ Len(r.order[1].items) = Len(cart)
             /\ \A i \in 1 .. Len(cart) :
                    /\ r.order[1].items[i].id = cart[i].id
                    /\ r.order[1].items[i].price = cart[i].price
                    /\ r.order[1].items[i].quantity = cart[i].quantity
             /\ AmountsAddUp(r.order[1])
             /\ r.order[1].status = ORDER_STATUS.PENDING
             /\ Len(r.order[1].statusHistory) = 1
             /\ r.order[1].statusHistory[1].status = ORDER_STATUS.PENDING

\* two Chicken Rice at 350 and one Vegetable Fried Rice at 280 were ordered:
\* the stored order totals 980
C1_Witness ==
    \E i \in 1 .. Len(orders) :
       /\ Len(orders[i].items) = 2
       /\ orders[i].items[1].price = 350 /\ orders[i].items[1].quantity = 2
       /\ orders[i].items[2].price = 280 /\ orders[i].items[2].quantity = 1
       /\ orders[i].total = 980

\* C2: the status of every stored order is the status of the last entry of
\* its statusHistory.
C2_StatusIsLastEntry ==
    \A i \in 1 .. Len(orders) :
       /\ Len(orders[i].statusHistory) >= 1
       /\ orders[i].status =
            orders[i].statusHistory[Len(orders[i].statusHistory)].status

\* an order went through two transitions
C2_Witness ==
    \E i \in 1 .. Len(orders) :
       /\ Len(orders[i].statusHistory) = 3
       /\ orders[i].status # ORDER_STATUS.PENDING

\* C3: any two distinct stored orders whose createdAt falls on the same
\* calendar day have different tokens, and the sequence numbers NNNN of
\* their tokens increase strictly in creation order (the order of the
\* collection, onto which createOrder pushes).
C3_SameDayTokensIncrease ==
    \A i, j \in 1 .. Len(orders) :
       (i < j /\ toDateString(orders[i].createdAt) = toDateString(orders[j].createdAt))
       => /\ orders[i].token # orders[j].token
          /\ digitsValue(orders[i].token.sequenceNum)
               < digitsValue(orders[j].token.sequenceNum)

\* the part of C3 the program keeps: stored orders created on the same
\* calendar day have different tokens
SameDayTokensDiffer ==
    \A i, j \in 1 .. Len(orders) :
       (i < j /\ toDateString(orders[i].createdAt) = toDateString(orders[j].createdAt))
       => orders[i].token # orders[j].token

\* s is an initial segment of t
IsPrefix(s, t) == Len(s) <= Len(t) /\ SubSeq(t, 1, Len(s)) = s

\* the order at position i is still stored at position i after the step
Kept(i) == i <= Len(orders') /\ orders'[i].id = orders[i].id

\* C4: statusHistory is append-only. updateOrderStatus on a stored order
\* succeeds and extends that order's statusHistory by exactly one entry,
\* whose status is the new status, leaving the other orders as they were;
\* and no step of the program shortens or rewrites the history of an order
\* that stays stored.
C4_HistoryAppendOnly ==
    /\ [](\A i \in 1 .. Len(orders) : \A newStatus \in Statuses :
            \A ts \in Reads(3) :
               LET r == updateOrderStatus(orders[i].id, newStatus, <<>>,
                                          ts[1], ts[2], ts[3])
                   before == orders[i].statusHistory
                   after == r.orders[i].statusHistory
               IN  /\ r.success
                   /\ Len(r.orders) = Len(orders)
                   /\ Len(after) = Len(before) + 1
                   /\ IsPrefix(before, after)
                   /\ after[Len(after)].status = newStatus
                   /\ \A j \in 1 .. Len(orders) :
                          j # i => r.orders[j] = orders[j])
    /\ [][\A i \in 1 .. Len(orders) :
             Kept(i) =>
                /\ IsPrefix(orders[i].statusHistory, orders'[i].statusHistory)
                /\ Len(orders'[i].statusHistory)
                     <= Len(orders[i].statusHistory) + 1]_vars

\* an order went pending -> preparing -> ready -> completed and its history
\* holds exactly these four entries
C4_Witness ==
    \E i \in 1 .. Len(orders) :
       LET h == orders[i].statusHistory IN
       /\ Len(h) = 4
       /\ h[1].status = ORDER_STATUS.PENDING
       /\ h[2].status = ORDER_STATUS.PREPARING
       /\ h[3].status = ORDER_STATUS.READY
       /\ h[4].status = ORDER_STATUS.COMPLETED

\* C5: every stored order has at least one statusHistory entry, and the
\* first entry has status pending and a timestamp equal to createdAt.
C5_FirstEntryAtCreation ==
    \A i \in 1 .. Len(orders) :
       /\ Len(orders[i].statusHistory) >= 1
       /\ orders[i].statusHistory[1].status = ORDER_STATUS.PENDING
       /\ orders[i].statusHistory[1].timestamp = orders[i].createdAt

\* the part of C5 the program keeps: the first entry is the pending entry,
\* stamped no later than createdAt
FirstEntryPending ==
    \A i \in 1 .. Len(orders) :
       /\ Len(orders[i].statusHistory) >= 1
       /\ orders[i].statusHistory[1].status = ORDER_STATUS.PENDING
       /\ orders[i].statusHistory[1].timestamp <= orders[i].createdAt

\* C6: completedAt is set exactly once per order: a step sets it only by
\* moving the order to completed, and once set no later step changes it.
C6_CompletedAtSetOnce ==
    [][\A i \in 1 .. Len(orders) :
          Kept(i) =>
             /\ (orders[i].completedAt # Undefined
                   => orders'[i].completedAt = orders[i].completedAt)
             /\ (orders[i].completedAt = Undefined
                   /\ orders'[i].completedAt # Undefined
                   => orders'[i].status = ORDER_STATUS.COMPLETED)]_vars

\* the part of C6 the program keeps: completedAt is set only by a step to
\* completed and is never cleared
CompletedAtNeverCleared ==
    [][\A i \in 1 .. Len(orders) :
          Kept(i) =>
             /\ (orders[i].completedAt # Undefined
                   => orders'[i].completedAt # Undefined)
             /\ (orders'[i].completedAt # orders[i].completedAt
                   => orders'[i].status = ORDER_STATUS.COMPLETED)]_vars

\* C7: updateOrderStatus(id, completed) on a stored order succeeds and
\* leaves the order with a completedAt that is set and not before its
\* createdAt; so is the completedAt of every stored completed order.
C7_CompletedAtNotBeforeCreatedAt ==
    /\ \A i \in 1 .. Len(orders) : \A ts \in Reads(3) :
          LET r == updateOrderStatus(orders[i].id, ORDER_STATUS.COMPLETED, <<>>,
                                     ts[1], ts[2], ts[3])
          IN  /\ r.success
              /\ r.orders[i] = r.order[1]
              /\ r.order[1].completedAt # Undefined
              /\ r.order[1].completedAt >= r.order[1].createdAt
    /\ \A i \in 1 .. Len(orders) :
          orders[i].status = ORDER_STATUS.COMPLETED
          => /\ orders[i].completedAt # Undefined
             /\ orders[i].completedAt >= orders[i].createdAt

\* an order was completed at a later instant than it was created
C7_Witness ==
    \E i \in 1 .. Len(orders) :
       /\ orders[i].status = ORDER_STATUS.COMPLETED
       /\ orders[i].completedAt > orders[i].createdAt

\* what an order operation leaves in storage is what was there
LeavesStorage(r) ==
    /\ r.order = <<>>
    /\ r.orders = orders
    /\ r.cart = cart
    /\ r.present = present
    /\ r.idSeq = idSeq

\* C8: updateOrderStatus with an id that matches no stored order returns
\* the failure 'Order not found' and writes nothing: the order collection
\* and every other storage key are as before.
C8_UnknownOrderRejected ==
    \A orderId \in IdInputs("order") :
       (\A i \in 1 .. Len(orders) : orders[i].id # orderId)
       => \A newStatus \in Statuses : \A ts \in Reads(3) :
             LET r == updateOrderStatus(orderId, newStatus, <<>>,
                                        ts[1], ts[2], ts[3])
             IN  /\ ~r.success
                 /\ r.message = "Order not found"
                 /\ LeavesStorage(r)

\* orders and a cart are stored, and the id after the last one issued
\* matches none of the orders
C8_Witness ==
    /\ Len(orders) >= 1
    /\ Len(cart) >= 1
    /\ \A i \in 1 .. Len(orders) : orders[i].id # <<"order", idSeq["order"] + 1>>

\* every stored order is still stored, at its position, after the step
OrdersKept == \A i \in 1 .. Len(orders) : Kept(i)

C10_CreateOrderRejected ==
    \A ts \in Reads(4) :
       LET r == createOrder(ts[1], ts[2], ts[3], ts[4]) IN
       /\ Len(cart) = 0
            => ~r.success /\ r.message = "Cart is empty" /\ LeavesStorage(r)
       /\ (Len(cart) > 0 /\ currentUser = NullUser)
            => /\ ~r.success
               /\ r.message = "Please login to place order"
               /\ LeavesStorage(r)

\* a cart is stored and orders exist, and nobody is logged in
C10_Witness ==
    /\ Len(cart) >= 1
    /\ Len(orders) >= 1
    /\ currentUser = NullUser

\* C11: no partial commits. createOrder reports success only when the
\* order collection holds the new order afterwards, and when the write of
\* the collection failed it leaves the cart as it was; updateOrderStatus
\* reports success only when the collection holds the rewritten order.
C11_NoPartialCommit ==
    /\ \A ts \in Reads(4) :
          LET r == createOrder(ts[1], ts[2], ts[3], ts[4]) IN
          /\ r.success => r.orders = Append(orders, r.order[1])
          /\ r.orders = orders => r.cart = cart
    /\ \A i \in 1 .. Len(orders) : \A newStatus \in Statuses :
          \A ts \in Reads(3) :
             LET r == updateOrderStatus(orders[i].id, newStatus, <<>>,
                                        ts[1], ts[2], ts[3])
             IN  r.success => r.orders[i] = r.order[1]

\* C12: a successful createOrder appends exactly one order at the end of
\* the order collection, leaves every stored order as it was and where it
\* was, and leaves the cart empty; and every step that makes the collection
\* longer does just that.
C12_CreateOrderAppendsOne ==
    /\ []((Len(cart) > 0 /\ currentUser # NullUser) =>
            \A ts \in Reads(4) :
               LET r == createOrder(ts[1], ts[2], ts[3], ts[4]) IN
               /\ r.success
               /\ Len(r.orders) = Len(orders) + 1
               /\ SubSeq(r.orders, 1, Len(orders)) = orders
               /\ r.orders[Len(r.orders)] = r.order[1]
               /\ r.cart = <<>>)
    /\ [][Len(orders') > Len(orders) =>
             /\ Len(orders') = Len(orders) + 1
             /\ SubSeq(orders', 1, Len(orders)) = orders
             /\ cart' = <<>>]_vars

\* a second order was appended behind one that had already moved on, and
\* the cart is empty
C12_Witness ==
    /\ Len(orders) = 2
    /\ orders[1].status = ORDER_STATUS.PREPARING
    /\ orders[2].status = ORDER_STATUS.PENDING
    /\ orders[2].id = <<"order", 2>>
    /\ cart = <<>>

\* the statuses an order went through
statusesOf(order) ==
    [k \in 1 .. Len(order.statusHistory) |-> order.statusHistory[k].status]

\* C13: when statuses change only through the buttons the staff dashboard
\* offers, the statuses an order went through are a prefix of pending,
\* preparing, ready, completed, or are exactly pending, cancelled: no
\* status repeats and nothing follows completed or cancelled.
C13_UiLifecycle ==
    \A i \in 1 .. Len(orders) :
       \/ IsPrefix(statusesOf(orders[i]),
                   <<ORDER_STATUS.PENDING, ORDER_STATUS.PREPARING,
                     ORDER_STATUS.READY, ORDER_STATUS.COMPLETED>>)
       \/ statusesOf(orders[i]) = <<ORDER_STATUS.PENDING, ORDER_STATUS.CANCELLED>>

\* the part of C13 the program keeps: with the single listener the
\* dashboard installs when it loads, the lifecycle is followed
OneListenerLifecycle ==
    [][listeners = 1 /\ listeners' = 1 /\ C13_UiLifecycle => C13_UiLifecycle']_vars

\* C14: updateOrderStatus is permissive. For every stored order, whatever
\* its current status, and for every new status, it succeeds, sets the
\* order's status to the new status and appends the entry for it.
C14_AnyJumpAccepted ==
    \A i \in 1 .. Len(orders) : \A newStatus \in Statuses :
       \A ts \in Reads(3) :
          LET r == updateOrderStatus(orders[i].id, newStatus, <<>>,
                                     ts[1], ts[2], ts[3])
          IN  /\ r.success
              /\ r.orders[i].status = newStatus
              /\ statusesOf(r.orders[i])
                   = Append(statusesOf(orders[i]), newStatus)

\* an order jumped from pending to completed and was then cancelled
C14_Witness ==
    \E i \in 1 .. Len(orders) :
       statusesOf(orders[i]) = <<ORDER_STATUS.PENDING, ORDER_STATUS.COMPLETED,
                                 ORDER_STATUS.CANCELLED>>

\* C15: two tabs that run createOrder on the same day and whose
\* generateToken both read the order collection before either tab wrote it
\* (they read the same collection) build orders with the same token; and a
\* state with two stored same-day orders sharing a token is reachable
\* (C15_Witness).
C15_RacingTabsShareToken ==
    \A p, q \in Tabs :
       (/\ p # q
        /\ tabs[p].order # <<>> /\ tabs[q].order # <<>>
        /\ tabs[p].read = tabs[q].read
        /\ tabs[p].order[1].token.dateStr = tabs[q].order[1].token.dateStr)
       => tabs[p].order[1].token = tabs[q].order[1].token

\* two orders created on the same day are stored with the same token
C15_Witness ==
    \E i, j \in 1 .. Len(orders) :
       /\ i < j
       /\ orders[i].id # orders[j].id
       /\ toDateString(orders[i].createdAt) = toDateString(orders[j].createdAt)
       /\ orders[i].token = orders[j].token

\* how many of the first n stored orders were created on the day of
\* createdAt
RECURSIVE createdThatDay(_, _)
createdThatDay(n, createdAt) ==
    IF n = 0 THEN 0
    ELSE createdThatDay(n - 1, createdAt)
         + (IF toDateString(orders[n].createdAt) = toDateString(createdAt)
            THEN 1 ELSE 0)

\* C16: the token of every order createOrder stored is TKN, a date and a
\* sequence number of exactly four digits, and the k-th order of a day (by
\* createdAt, in creation order) carries the sequence number k.
C16_KthOrderGetsK ==
    \A i \in 1 .. Len(orders) :
       /\ orders[i].token.prefix = "TKN"
       /\ Len(orders[i].token.sequenceNum) = 4
       /\ digitsValue(orders[i].token.sequenceNum)
            = createdThatDay(i, orders[i].createdAt)

\* the part of C16 the program keeps: at the instant generateToken reads
\* the clock, the token is TKN, the day of that instant, and the number of
\* stored orders created on that day plus one, on four digits
TokenAtIssue ==
    \A t \in Time :
       t >= now =>
          /\ generateToken(t).prefix = "TKN"
          /\ generateToken(t).dateStr = toDateString(t)
          /\ Len(generateToken(t).sequenceNum) = 4
          /\ digitsValue(generateToken(t).sequenceNum)
               = createdThatDay(Len(orders), t) + 1

\* the part of C16 that ends at 9999 orders a day: the sequence number of
\* the 10000th has five digits
FourDigitsUpTo9999 ==
    /\ \A n \in {1, 9, 10, 99, 100, 9999} : Len(padStart(toDigits(n), 4)) = 4
    /\ Len(padStart(toDigits(10000), 4)) = 5

\* the fields of an order that updateOrderStatus may write
StatusFields == {"status", "statusHistory", "updatedAt", "completedAt"}

\* after differs from before in nothing but the fields updateOrderStatus
\* may write, completedAt among them only on a change to completed
OnlyStatusFieldsDiffer(before, after) ==
    /\ DOMAIN after = DOMAIN before
    /\ \A f \in DOMAIN before \ StatusFields : after[f] = before[f]
    /\ after.id = before.id
    /\ after.token = before.token
    /\ after.userId = before.userId
    /\ after.userName = before.userName
    /\ after.userEmail = before.userEmail
    /\ after.items = before.items
    /\ after.subtotal = before.subtotal
    /\ after.tax = before.tax
    /\ after.total = before.total
    /\ after.createdAt = before.createdAt
    /\ after.status # ORDER_STATUS.COMPLETED
         => after.completedAt = before.completedAt

\* C17: a successful updateOrderStatus changes only status, statusHistory,
\* updatedAt and (on a change to completed) completedAt of the target
\* order; its id, token, userId, userName, userEmail, items, subtotal, tax,
\* total and createdAt, and every other order, stay as they were. The same
\* holds of every step of the program that rewrites a stored order.
C17_OnlyStatusFieldsChange ==
    /\ [](\A i \in 1 .. Len(orders) : \A newStatus \in Statuses :
            \A ts \in Reads(3) :
               LET r == updateOrderStatus(orders[i].id, newStatus, <<>>,
                                          ts[1], ts[2], ts[3])
               IN  /\ r.success
                   /\ Len(r.orders) = Len(orders)
                   /\ OnlyStatusFieldsDiffer(orders[i], r.orders[i])
                   /\ \A j \in 1 .. Len(orders) :
                          j # i => r.orders[j] = orders[j])
    /\ [][\A i \in 1 .. Len(orders) :
             Kept(i) => OnlyStatusFieldsDiffer(orders[i], orders'[i])]_vars

\* of two stored orders the later-created one was moved to ready, then to
\* completed, and the other is still as createOrder stored it
C17_Witness ==
    \E i, j \in 1 .. Len(orders) :
       /\ i # j
       /\ statusesOf(orders[i]) = <<ORDER_STATUS.PENDING>>
       /\ orders[i].updatedAt = orders[i].createdAt
       /\ statusesOf(orders[j]) = <<ORDER_STATUS.PENDING, ORDER_STATUS.READY,
                                    ORDER_STATUS.COMPLETED>>
       /\ orders[j].updatedAt > orders[j].createdAt

\* the step stored the collection that a successful createOrder writes
WrittenByCreateOrder ==
    \E ts \in Reads(4) :
       LET r == createOrder(ts[1], ts[2], ts[3], ts[4]) IN
       r.success /\ orders' = r.orders

\* the step stored the collection that a successful updateOrderStatus writes
WrittenByUpdateOrderStatus ==
    \E i \in 1 .. Len(orders) : \E newStatus \in Statuses :
       \E ts \in Reads(3) :
          LET r == updateOrderStatus(orders[i].id, newStatus, <<>>,
                                     ts[1], ts[2], ts[3]) IN
          r.success /\ orders' = r.orders

OldestFirst(s) ==
    \A k, l \in 1 .. Len(s) : k < l => s[k].createdAt <= s[l].createdAt

\* the positions of s are in createdAt order, newest first
NewestFirst(s) ==
    \A k, l \in 1 .. Len(s) : k < l => s[k].createdAt >= s[l].createdAt

\* how many positions of s hold the order o
Occurrences(s, o) == Cardinality({k \in 1 .. Len(s) : s[k] = o})

\* how many positions of the stored collection hold the order o
Stored(o) == Occurrences(orders, o)

\* C19: getActiveOrders returns exactly the stored orders whose status is
\* pending, preparing or ready, each as often as it is stored, sorted by
\* createdAt ascending.
C19_ActiveOrdersOldestFirst ==
    LET r == getActiveOrders IN
    /\ \A k \in 1 .. Len(r) :
          r[k].status \in {ORDER_STATUS.PENDING, ORDER_STATUS.PREPARING,
                           ORDER_STATUS.READY}
    /\ \A k \in 1 .. Len(r) : Occurrences(r, r[k]) = Stored(r[k])
    /\ \A i \in 1 .. Len(orders) :
          orders[i].status \in {ORDER_STATUS.PENDING, ORDER_STATUS.PREPARING,
                                ORDER_STATUS.READY}
             => Occurrences(r, orders[i]) = Stored(orders[i])
    /\ \A i \in 1 .. Len(orders) :
          orders[i].status \in {ORDER_STATUS.COMPLETED, ORDER_STATUS.CANCELLED}
             => Occurrences(r, orders[i]) = 0
    /\ OldestFirst(r)

\* the newer of two stored orders is stored first, the older one was moved
\* on to ready, and getActiveOrders returns the two the other way round
C19_Witness ==
    /\ Len(orders) = 2
    /\ orders[1].createdAt > orders[2].createdAt
    /\ orders[1].status = ORDER_STATUS.PENDING
    /\ orders[2].status = ORDER_STATUS.READY
    /\ getActiveOrders = <<orders[2], orders[1]>>

\* a stored order is completed or cancelled and getActiveOrders leaves it
\* out while returning another
ClosedOrderLeftOut ==
    \E i \in 1 .. Len(orders) :
       /\ orders[i].status \in {ORDER_STATUS.COMPLETED, ORDER_STATUS.CANCELLED}
       /\ Len(getActiveOrders) = Len(orders) - 1
       /\ Len(orders) = 2

\* C20: getUserOrders(userId) returns exactly the stored orders with that
\* userId, each as often as it is stored, sorted by createdAt descending,
\* and the stored collection is the same when it has returned.
C20_UserOrdersNewestFirst ==
    \A userId \in IdInputs("user") :
       LET r == getUserOrders(userId) IN
       /\ \A k \in 1 .. Len(r.returned) : r.returned[k].userId = userId
       /\ \A k \in 1 .. Len(r.returned) :
             Occurrences(r.returned, r.returned[k]) = Stored(r.returned[k])
       /\ \A i \in 1 .. Len(orders) :
             Occurrences(r.returned, orders[i])
                = (IF orders[i].userId = userId THEN Stored(orders[i]) ELSE 0)
       /\ NewestFirst(r.returned)
       /\ r.orders = orders

\* two accounts have one stored order each, and getUserOrders returns to
\* each account its own order only
C20_Witness ==
    /\ Len(orders) = 2
    /\ orders[1].userId # orders[2].userId
    /\ getUserOrders(orders[1].userId).returned = <<orders[1]>>
    /\ getUserOrders(orders[2].userId).returned = <<orders[2]>>

\* one account has two stored orders placed at different times, stored
\* oldest first, and getUserOrders returns them newest first while the
\* collection stays as stored
UserOrdersReversed ==
    /\ Len(orders) = 2
    /\ orders[1].createdAt < orders[2].createdAt
    /\ getUserOrders(orders[1].userId).returned = <<orders[2], orders[1]>>
    /\ getUserOrders(orders[1].userId).orders = <<orders[1], orders[2]>>

\* the sum of total over the first n stored orders that were created on the
\* day of date and are completed now
RECURSIVE completedRevenue(_, _)
completedRevenue(n, date) ==
    IF n = 0 THEN 0
    ELSE completedRevenue(n - 1, date)
         + (IF /\ toDateString(orders[n].createdAt) = toDateString(date)
               /\ orders[n].status = ORDER_STATUS.COMPLETED
            THEN orders[n].total ELSE 0)

\* C21: for every date, getDailyReport(date).revenue is the sum of total
\* over exactly the stored orders created on that date whose status is
\* completed; an order created on an earlier day and completed on the date
\* adds nothing to the revenue of the date.
C21_RevenueByCreationDate ==
    \A date \in Time :
       /\ getDailyReport(date).revenue = completedRevenue(Len(orders), date)
       /\ (\A i \in 1 .. Len(orders) :
              toDateString(orders[i].createdAt) # toDateString(date))
            => getDailyReport(date).revenue = 0

\* an order created on one day was completed on the next: the report of the
\* day of completion has no revenue, the report of the day of creation has
\* the order's total
C21_Witness ==
    /\ Len(orders) = 1
    /\ orders[1].status = ORDER_STATUS.COMPLETED
    /\ orders[1].completedAt # Undefined
    /\ toDateString(orders[1].completedAt) # toDateString(orders[1].createdAt)
    /\ getDailyReport(orders[1].completedAt).revenue = 0
    /\ getDailyReport(orders[1].createdAt).revenue = orders[1].total
    /\ orders[1].total > 0

\* the lines of the completed orders created on the day of date, in the
\* order of the stored orders and of their lines
completedLines(date) ==
    linesOf(SelectSeq(orders, LAMBDA o :
               /\ toDateString(o.createdAt) = toDateString(date)
               /\ o.status = ORDER_STATUS.COMPLETED))

\* the quantity of the item called name over lines
RECURSIVE quantitySold(_, _)
quantitySold(name, lines) ==
    IF lines = <<>> THEN 0
    ELSE (IF lines[1].name = name THEN lines[1].quantity ELSE 0)
         + quantitySold(name, Tail(lines))

\* the first position of lines that holds the item called name
firstEncounter(name, lines) ==
    CHOOSE k \in 1 .. Len(lines) :
       /\ lines[k].name = name
       /\ \A l \in 1 .. (k - 1) : lines[l].name # name

\* p holds at most 5 of the items of lines, each once with its quantity
\* over lines, in non-increasing order of quantity, and no item left out
\* has a higher quantity than one that is in
TopFiveByQuantity(p, lines) ==
    /\ Len(p) <= 5
    /\ \A k \in 1 .. Len(p) :
          /\ \E l \in 1 .. Len(lines) : lines[l].name = p[k].name
          /\ p[k].count = quantitySold(p[k].name, lines)
    /\ \A k, l \in 1 .. Len(p) : k < l =>
          p[k].name # p[l].name /\ p[k].count >= p[l].count
    /\ \A l \in 1 .. Len(lines) :
          \/ \E k \in 1 .. Len(p) : p[k].name = lines[l].name
          \/ /\ Len(p) = 5
             /\ \A k \in 1 .. Len(p) :
                   p[k].count >= quantitySold(lines[l].name, lines)

\* C22: popularItems holds at most 5 entries, each the quantity of one
\* item over the completed orders created on the date, the highest
\* quantities in non-increasing order, and items of equal quantity in the
\* order in which the scan of the orders and their lines first met them.
C22_PopularItemsTiesAsEncountered ==
    \A date \in Time :
       LET p == getDailyReport(date).popularItems
           lines == completedLines(date)
       IN  /\ TopFiveByQuantity(p, lines)
           /\ \A k, l \in 1 .. Len(p) :
                 (k < l /\ p[k].count = p[l].count)
                    => firstEncounter(p[k].name, lines)
                         < firstEncounter(p[l].name, lines)

\* the part of C22 the program keeps: the entries are the quantities by
\* item name, highest first, and items of equal quantity whose names are
\* not integers are in the order in which they were first met
PopularItemsOfOtherNames ==
    \A date \in Time :
       LET p == getDailyReport(date).popularItems
           lines == completedLines(date)
       IN  /\ TopFiveByQuantity(p, lines)
           /\ \A k, l \in 1 .. Len(p) :
                 (/\ k < l
                  /\ p[k].count = p[l].count
                  /\ arrayIndex(p[k].name) = Undefined
                  /\ arrayIndex(p[l].name) = Undefined)
                    => firstEncounter(p[k].name, lines)
                         < firstEncounter(p[l].name, lines)

\* C23: at most one refresh timer is active, and it is the one
\* startOrderRefresh started last: starting clears the timer kept before,
\* after stopOrderRefresh no timer is active, and the only refresh tick
\* that fires is the one of the timer kept.
C23_OneRefreshTimer ==
    /\ [](/\ Cardinality(timers.active) <= 1
          /\ timers.active = IF orderRefreshInterval = NoInterval THEN {}
                             ELSE {orderRefreshInterval})
    /\ [][timers'.ran \notin {timers.ran, NoInterval}
            => /\ orderRefreshInterval # NoInterval
               /\ timers'.ran = orderRefreshInterval]_vars

\* the refresh was started, started again and its second timer fired,
\* the first one being cleared
C23_Witness ==
    /\ timers.issued = 2
    /\ orderRefreshInterval = 2
    /\ timers.active = {2}
    /\ timers.ran = 2

\* the refresh was started and stopped: no timer is left
RefreshStopped ==
    /\ timers.issued > 0
    /\ orderRefreshInterval = NoInterval
    /\ timers.active = {}

\* C24: every stored order has total >= 0, whatever items addMenuItem and
\* updateMenuItem put into the catalog and whatever cart the cart
\* operations built.
C24_TotalNotNegative ==
    \A i \in 1 .. Len(orders) : orders[i].total >= 0

\* the part of C24 the program keeps: an order none of whose lines has a
\* price below zero has total >= 0
TotalNotNegativeWithoutNegativePrices ==
    \A i \in 1 .. Len(orders) :
       (\A k \in 1 .. Len(orders[i].items) : orders[i].items[k].price >= 0)
          => orders[i].total >= 0

\* the line refers to an item that is in the catalog and available
InCatalog(line) ==
    \E m \in 1 .. Len(menuItems) :
       menuItems[m].id = line.id /\ menuItems[m].available

\* C25: every line of an order that createOrder produces refers to a menu
\* item that exists and is available in the catalog at the moment
\* createOrder runs, also when the item was deleted or made unavailable
\* after it was added to the cart.
C25_LinesValidatedAtCreation ==
    \A ts \in Reads(4) :
       LET r == createOrder(ts[1], ts[2], ts[3], ts[4]) IN
       r.success =>
          \A k \in 1 .. Len(r.order[1].items) : InCatalog(r.order[1].items[k])

\* C26: creating a staff member, a menu item or the shop location with a
\* name that is missing or empty, also after trimming, fails and leaves
\* storage unchanged, so that no record with an empty name is ever stored.
C26_NoEmptyNameStored ==
    /\ \A i \in 1 .. Len(menuItems) : menuItems[i].name # ""
    /\ \A i \in 1 .. Len(staffMembers) : staffMembers[i].name # ""
    /\ \A i \in 1 .. Len(users) : users[i].name # ""
    /\ \A i \in 1 .. Len(shopLocation) : shopLocation[i].name # ""

\* the part of C26 the program keeps: a name that is empty as typed is
\* rejected with a message and nothing is stored
EmptyNameRejected ==
    /\ \A itemData \in AdminItemInputs :
          itemData.name = ""
             => /\ ~addMenuItem(itemData).success
                /\ addMenuItem(itemData).message
                     = "Name, price, and category are required"
                /\ addMenuItem(itemData).menuItems = menuItems
                /\ addMenuItem(itemData).idSeq = idSeq
    /\ \A staffData \in AdminStaffInputs :
          staffData.name = ""
             => /\ ~addStaffMember(staffData).success
                /\ addStaffMember(staffData).message = "All fields are required"
                /\ addStaffMember(staffData).staffMembers = staffMembers
                /\ addStaffMember(staffData).users = users
    /\ \A locationData \in AdminLocationInputs :
          locationData.name = ""
             => /\ ~saveShopLocation(locationData).success
                /\ saveShopLocation(locationData).message
                     = "Name and address are required"
                /\ saveShopLocation(locationData).shopLocation = shopLocation

\* the policy table: the statuses the offered actions lead to
offeredTransitions(status) ==
    CASE status = "pending" -> {"preparing", "cancelled"}
      [] status = "preparing" -> {"ready"}
      [] status = "ready" -> {"completed"}
      [] OTHER -> {}

\* the buttons offered on the order are one per action of the policy table
\* for its status
OffersPolicyActions(order) ==
    LET buttons == getOrderActionButtons(order) IN
    /\ {buttonStatus(b) : b \in buttons} = offeredTransitions(order.status)
    /\ Cardinality(buttons) = Cardinality(offeredTransitions(order.status))
    /\ order.status = "pending"
         => buttons = {"start-preparing-btn", "cancel-order-btn"}
    /\ order.status = "preparing" => buttons = {"mark-ready-btn"}
    /\ order.status = "ready" => buttons = {"complete-order-btn"}

\* C27: getOrderActionButtons offers exactly the actions of the policy
\* table for the order's status: start preparing and cancel when pending,
\* mark ready when preparing, complete when ready, and none when
\* completed, cancelled or of any other status.
C27_ButtonsFollowPolicy ==
    /\ \A i \in 1 .. Len(orders) : OffersPolicyActions(orders[i])
    /\ \A status \in Statuses \cup {"refunded", ""} :
          OffersPolicyActions([id |-> generateId("order"), status |-> status])

\* an order is being prepared and is offered Mark Ready only, while a
\* cancelled order is offered nothing
C27_Witness ==
    \E i, j \in 1 .. Len(orders) :
       /\ orders[i].status = ORDER_STATUS.PREPARING
       /\ getOrderActionButtons(orders[i]) = {"mark-ready-btn"}
       /\ orders[j].status = ORDER_STATUS.CANCELLED
       /\ getOrderActionButtons(orders[j]) = {}

\* the click being dispatched has already been applied to its order: the
\* order has the status the clicked button leads to
ClickApplied ==
    /\ dispatch # <<>>
    /\ \E i \in 1 .. Len(orders) :
          /\ orders[i].id = dispatch[1].orderId
          /\ orders[i].status = buttonStatus(dispatch[1].button)

\* ordersCompleted of the logged-in staff member in the roster m, 0 when
\* the roster has no such member
ordersCompletedIn(m) ==
    LET staffIndex == findIndex(m, LAMBDA e : e.id = getCurrentUser.id)
    IN  IF staffIndex = 0 THEN 0 ELSE m[staffIndex].ordersCompleted

\* C28: one click on an order action button performs exactly one status
\* transition, after any number of filter-tab switches: no listener
\* applies the click to the order again (no second statusHistory entry, no
\* second increment of ordersCompleted) once the click has been applied.
C28_OneTransitionPerClick ==
    [][ClickApplied => orders' = orders /\ staffMembers' = staffMembers]_vars

\* the part of C28 the program keeps: with the single listener the
\* dashboard installs when it loads, a click appends one statusHistory
\* entry to its order and a click on Complete adds 1 to ordersCompleted
OneListenerOneTransition ==
    [][(dispatch # <<>> /\ listeners = 1 /\ orders' # orders)
         => /\ ~ClickApplied
            /\ dispatch' = <<>>
            /\ \A i \in 1 .. Len(orders) :
                  /\ Len(orders'[i].statusHistory)
                       = Len(orders[i].statusHistory)
                         + (IF orders[i].id = dispatch[1].orderId THEN 1 ELSE 0)
            /\ ordersCompletedIn(staffMembers')
                 = ordersCompletedIn(staffMembers)
                   + (IF dispatch[1].button = "complete-order-btn" THEN 1 ELSE 0)]_vars

\* every line of the cart c has quantity >= 1 and no two lines of c have
\* the same item id
CartWellFormed(c) ==
    /\ \A i \in 1 .. Len(c) : c[i].quantity >= 1
    /\ \A i, j \in 1 .. Len(c) : i # j => c[i].id # c[j].id

UnissuedTokens ==
    { [prefix |-> "TKN", dateStr |-> toDateString(t),
       sequenceNum |-> padStart(toDigits(Len(orders) + 1), 4)] : t \in Time }

\* C30: with a single writer, every order that createOrder returned is
\* found, in its current state, by getOrderByToken under its token and by
\* getOrderById under its id, whatever createOrder and updateOrderStatus
\* calls followed; a token or an id of no order finds nothing.
C30_LookupFindsOrder ==
    /\ \A i \in 1 .. Len(orders) :
          /\ getOrderByToken(orders[i].token) = <<orders[i]>>
          /\ getOrderById(orders[i].id) = <<orders[i]>>
    /\ \A ts \in Reads(4) :
          LET r == createOrder(ts[1], ts[2], ts[3], ts[4]) IN
          r.success =>
             /\ getOrderByToken(r.order[1].token) = <<>>
             /\ getOrderById(r.order[1].id) = <<>>
    /\ \A token \in UnissuedTokens :
          (\A i \in 1 .. Len(orders) : orders[i].token # token)
             => getOrderByToken(token) = <<>>
    /\ \A orderId \in IdInputs("order") :
          (\A i \in 1 .. Len(orders) : orders[i].id # orderId)
             => getOrderById(orderId) = <<>>

\* two orders placed on different days both carry the sequence number
\* 0001; the older one was moved on since, and each is found under its own
\* token in its current state
C30_Witness ==
    /\ Len(orders) = 2
    /\ orders[1].token.sequenceNum = orders[2].token.sequenceNum
    /\ orders[1].token.dateStr # orders[2].token.dateStr
    /\ Len(orders[1].statusHistory) = 2
    /\ getOrderByToken(orders[1].token) = <<orders[1]>>
    /\ getOrderByToken(orders[2].token) = <<orders[2]>>


============================================================================
